---- MODULE Spec2Model ----
(***************************************************************************)
(* TagonJS v2.0: the query executor over the storage manager, and the      *)
(* lexer's contextual keyword.                                             *)
(*                                                                         *)
(* Spec     the executor: statements as the parser builds them, executed   *)
(*          one at a time against the XML store (whole table loaded and    *)
(*          saved per statement).                                          *)
(* SpecLex  the lexer: getNextToken over a stream of lexemes, with the     *)
(*          token history that resolves the word 'em'.                     *)
(* SpecParse  the parser: Parser.parse on the tokens of an input.          *)
(* SpecSelect  GROUP BY and ORDER BY over a stored table of up to          *)
(*          MaxLinhas records, some of them without a column.              *)
(* SpecInsert  INSERT into a table with a column of each declared type.    *)
(* SpecValidator  StorageManager.insertRecord with the constraint          *)
(*          validator, between DELETE statements.                          *)
(* SpecInsertDelete  INSERT and DELETE on one table.                       *)
(* SpecTokenize  Lexer.tokenize, character by character, on inputs of up   *)
(*          to MaxTexto characters.                                        *)
(* SpecCursor  Parser.parse on sentences of up to MaxCursor tokens.        *)
(* SpecProjecao  SELECT of one column with ORDER BY over stored records.   *)
(* SpecConstraints  insertRecord on a table with table-level constraints.  *)
(* SpecDefault  insertRecord on a table whose columns declare DEFAULT.     *)
(* SpecConcurrent  calls of QueryExecutor.execute interleaved at their     *)
(*          awaits.                                                        *)
(***************************************************************************)
EXTENDS Integers, Sequences, FiniteSets, TLC

VARIABLES
  arquivos,         \* dados/<db>.xml: db name -> [existe, tabelas]
  currentDatabase,  \* QueryExecutor.currentDatabase ("" is null)
  entrada,          \* the statement last handed to the CLI, as written, or the
                    \* call of insertRecord last made
  resultado,        \* what execute (or insertRecord) returned for it
  cenario,          \* progress through scenario A (an observer, not program state)
  emCurso,          \* the calls of execute issued and not awaited, each with the
                    \* locals it holds across its awaits
  lexModo,          \* lexer: "gramatical" or "livre" input
  gramatica,         \* lexer: what the writer of the input may write next
  tokens,           \* lexer: the tokens tokenize has pushed so far
  tokenHistory,     \* lexer: Lexer.tokenHistory
  parsed            \* what Parser.parse made of the tokens

execVars == <<arquivos, currentDatabase, entrada, resultado, cenario, emCurso>>
lexVars == <<lexModo, gramatica, tokens, tokenHistory, parsed>>
vars == <<arquivos, currentDatabase, entrada, resultado, cenario, emCurso,
          lexModo, gramatica, tokens, tokenHistory, parsed>>

(***************************************************************************)
(* Bounds of the model.                                                    *)
(***************************************************************************)
\* INSERT is offered while the selected store holds fewer records than this.
MaxRegistros == 2

(***************************************************************************)
(* JavaScript values.  A value is a record [k, n, s]: k is the typeof tag  *)
(* ("null" for null, "throw" for a raised Error whose message kind is s).  *)
(* The texts of the model are non-numeric, so ToNumber of a text is NaN    *)
(* unless the text is empty (0), and the XML round trip of the store       *)
(* returns every stored number and text as it was written.                 *)
(***************************************************************************)
Num(n) == [k |-> "number", n |-> n, s |-> ""]
Str(s) == [k |-> "string", n |-> 0, s |-> s]
Undefined == [k |-> "undefined", n |-> 0, s |-> ""]
Null == [k |-> "null", n |-> 0, s |-> ""]
NaN == [k |-> "number", n |-> 0, s |-> "NaN"]
Bool(b) == [k |-> "boolean", n |-> IF b THEN 1 ELSE 0, s |-> ""]
Throw(msg) == [k |-> "throw", n |-> 0, s |-> msg]

IsThrow(v) == v.k = "throw"
IsNaN(v) == v.k = "number" /\ v.s = "NaN"

\* The texts of the model in code-unit order (upper case before lower case).
Textos == <<"", "Mouse", "a", "b", "mouse">>
Rank(s) == CHOOSE i \in 1..Len(Textos) : Textos[i] = s

\* String.prototype.toLowerCase on the texts of the model.
toLowerCase(s) == IF s = "Mouse" THEN "mouse" ELSE s

\* ToNumber: undefined and non-numeric text give NaN, null and "" give 0.
ToNumber(v) ==
  CASE v.k = "number" -> v
    [] v.k = "string" /\ v.s = "" -> Num(0)
    [] v.k = "boolean" -> Num(v.n)
    [] v.k = "null" -> Num(0)
    [] OTHER -> NaN

\* String(v), as Array.prototype.join and getExpressionName apply it.
ToStr(v) ==
  CASE v.k = "string" -> v.s
    [] v.k = "number" -> IF IsNaN(v) THEN "NaN" ELSE ToString(v.n)
    [] v.k = "boolean" -> IF v.n = 1 THEN "true" ELSE "false"
    [] v.k = "null" -> "null"
    [] OTHER -> "undefined"

\* a == b (loose equality).
LooseEq(a, b) ==
  CASE a.k = b.k /\ a.k = "number" -> ~IsNaN(a) /\ ~IsNaN(b) /\ a.n = b.n
    [] a.k = b.k /\ a.k = "string" -> a.s = b.s
    [] a.k = b.k -> a = b
    [] a.k \in {"undefined", "null"} /\ b.k \in {"undefined", "null"} -> TRUE
    [] a.k \in {"undefined", "null"} \/ b.k \in {"undefined", "null"} -> FALSE
    [] OTHER -> LET x == ToNumber(a)
                    y == ToNumber(b)
                IN ~IsNaN(x) /\ ~IsNaN(y) /\ x.n = y.n

\* a === b (strict equality).
StrictEq(a, b) == a.k = b.k /\ ~IsNaN(a) /\ a = b

\* a < b (abstract relational comparison; false as soon as a side is NaN).
Less(a, b) ==
  IF a.k = "string" /\ b.k = "string"
  THEN Rank(a.s) < Rank(b.s)
  ELSE LET x == ToNumber(a)
           y == ToNumber(b)
       IN ~IsNaN(x) /\ ~IsNaN(y) /\ x.n < y.n

\* a <= b: in JavaScript this is "not (b < a)" unless a side is NaN.
LessEq(a, b) ==
  IF a.k = "string" /\ b.k = "string"
  THEN Rank(a.s) <= Rank(b.s)
  ELSE LET x == ToNumber(a)
           y == ToNumber(b)
       IN ~IsNaN(x) /\ ~IsNaN(y) /\ x.n <= y.n

(***************************************************************************)
(* AST nodes (src/parser/ast/nodes.js), as records tagged with the class   *)
(* name.  NoNode stands for a null clause.                                 *)
(***************************************************************************)
NoNode == [node |-> "null"]
LiteralExpression(value, type) ==
  [node |-> "LiteralExpression", value |-> value, type |-> type]
IdentifierExpression(name, tableName) ==
  [node |-> "IdentifierExpression", name |-> name, tableName |-> tableName]
BinaryExpression(left, operator, right) ==
  [node |-> "BinaryExpression", left |-> left, operator |-> operator, right |-> right]
AllColumnsExpression(tableName) ==
  [node |-> "AllColumnsExpression", tableName |-> tableName]
ColumnExpression(expression, alias) ==
  [node |-> "ColumnExpression", expression |-> expression, alias |-> alias]
FromClause(tableName, alias) ==
  [node |-> "FromClause", tableName |-> tableName, alias |-> alias]
JoinClause(joinType, tableName, onCondition, alias) ==
  [node |-> "JoinClause", joinType |-> joinType, tableName |-> tableName,
   onCondition |-> onCondition, alias |-> alias]
WhereClause(condition) == [node |-> "WhereClause", condition |-> condition]
OrderByExpression(expression, direction) ==
  [node |-> "OrderByExpression", expression |-> expression, direction |-> direction]
SelectStatement(selectList, fromClause, whereClause, joinClauses, orderByClause, groupByClause) ==
  [node |-> "SelectStatement", selectList |-> selectList, fromClause |-> fromClause,
   whereClause |-> whereClause, joinClauses |-> joinClauses,
   orderByClause |-> orderByClause, groupByClause |-> groupByClause]
InsertStatement(tableName, columns, values) ==
  [node |-> "InsertStatement", tableName |-> tableName, columns |-> columns,
   values |-> values]
UpdateStatement(tableName, assignments, whereClause) ==
  [node |-> "UpdateStatement", tableName |-> tableName, assignments |-> assignments,
   whereClause |-> whereClause]
DeleteStatement(tableName, whereClause) ==
  [node |-> "DeleteStatement", tableName |-> tableName, whereClause |-> whereClause]
ConstraintDefinition(type, options) ==
  [node |-> "ConstraintDefinition", type |-> type, options |-> options]
ColumnDefinition(name, type, constraints) ==
  [node |-> "ColumnDefinition", name |-> name, type |-> type, constraints |-> constraints]
TableConstraint(type, columnName, referencedTable, referencedColumn) ==
  [node |-> "TableConstraint", type |-> type, columnName |-> columnName,
   referencedTable |-> referencedTable, referencedColumn |-> referencedColumn]
CreateTableStatement(tableName, columns, tableConstraints) ==
  [node |-> "CreateTableStatement", tableName |-> tableName, columns |-> columns,
   tableConstraints |-> tableConstraints]
\* parseCreateDatabaseStatement returns a plain object {type, databaseName}.
CreateDatabaseObject(databaseName) ==
  [node |-> "Object", type |-> "CREATE_DATABASE", databaseName |-> databaseName]
\* Parser.parse returns the array of statements unless it holds exactly one.
StatementArray(statements) == [node |-> "Array", statements |-> statements]

(***************************************************************************)
(* Rows.  A result row maps keys to values; a key is <<prefix, column>>,   *)
(* the prefix "" for a bare column name ("u.id" is <<"u", "id">>).  A      *)
(* stored record maps column names to values.                              *)
(***************************************************************************)
EmptyRow == [key \in {} |-> Undefined]
Bare(campo) == <<"", campo>>
Get(row, key) == IF key \in DOMAIN row THEN row[key] ELSE Undefined
\* { ...a, ...b }
Spread(a, b) ==
  [key \in (DOMAIN a) \cup (DOMAIN b) |-> IF key \in DOMAIN b THEN b[key] ELSE a[key]]
\* A stored record read as a row (UPDATE and DELETE evaluate on the record itself).
RecordRow(registro) ==
  [key \in {Bare(c) : c \in DOMAIN registro} |-> registro[key[2]]]

(***************************************************************************)
(* Expression evaluation (src/query/executor.js).                          *)
(***************************************************************************)
\* left + right, left - right, left * right on numbers.  No statement the
\* parser builds carries an arithmetic operator (the lexer has no token for
\* + - / and the parser takes * only as a select-list entry), so the other
\* operand kinds and the division are left undefined here.
Arith(operator, left, right) ==
  CASE operator = "+" /\ left.k = "number" /\ right.k = "number" -> Num(left.n + right.n)
    [] operator = "-" /\ left.k = "number" /\ right.k = "number" -> Num(left.n - right.n)
    [] operator = "*" /\ left.k = "number" /\ right.k = "number" -> Num(left.n * right.n)

\* row[columnName] !== undefined ? row[columnName] : row[expression.name]
identifierValue(row, columnName, name) ==
  IF Get(row, columnName) # Undefined THEN Get(row, columnName) ELSE Get(row, Bare(name))

\* The switch of evaluateExpression on the operator of a BinaryExpression.
binaryValue(operator, left, right) ==
  IF IsThrow(left) THEN left
  ELSE IF IsThrow(right) THEN right
  ELSE IF operator \in {"+", "-", "*", "/"}
       THEN Arith(operator, left, right)
       ELSE Throw("Operador matematico nao suportado")

RECURSIVE evaluateExpression(_, _)
evaluateExpression(expression, row) ==
  CASE expression.node = "LiteralExpression" -> expression.value
    [] expression.node = "IdentifierExpression" ->
         identifierValue(row,
                         IF expression.tableName # ""
                         THEN <<expression.tableName, expression.name>>
                         ELSE Bare(expression.name),
                         expression.name)
    [] expression.node = "BinaryExpression" ->
         binaryValue(expression.operator,
                     evaluateExpression(expression.left, row),
                     evaluateExpression(expression.right, row))
    [] OTHER -> Throw("Tipo de expressao nao suportado")

\* The pattern texts of the model hold no %, _ or regex metacharacter, so the
\* compiled pattern is ^pattern$ with the i flag.
evaluateLike(value, pattern) ==
  IF value.k # "string" \/ pattern.k # "string"
  THEN FALSE
  ELSE toLowerCase(value.s) = toLowerCase(pattern.s)

RECURSIVE evaluateCondition(_, _)
\* l && evaluateCondition(condition.right, row)
andRight(l, condition, row) ==
  IF IsThrow(l) \/ l = Bool(FALSE) THEN l ELSE evaluateCondition(condition.right, row)
\* l || evaluateCondition(condition.right, row)
orRight(l, condition, row) ==
  IF IsThrow(l) \/ l = Bool(TRUE) THEN l ELSE evaluateCondition(condition.right, row)

\* evaluateCondition once both sides are evaluated as expressions: the switch.
conditionValue(condition, row, leftValue, rightValue) ==
  IF IsThrow(leftValue) THEN leftValue
  ELSE IF IsThrow(rightValue) THEN rightValue
  ELSE
    CASE condition.operator \in {"=", "equals"} -> Bool(LooseEq(leftValue, rightValue))
      [] condition.operator \in {"!=", "not_equals"} -> Bool(~LooseEq(leftValue, rightValue))
      [] condition.operator \in {"<", "less_than"} -> Bool(Less(leftValue, rightValue))
      [] condition.operator \in {">", "greater_than"} -> Bool(Less(rightValue, leftValue))
      [] condition.operator \in {"<=", "less_equal"} -> Bool(LessEq(leftValue, rightValue))
      [] condition.operator \in {">=", "greater_equal"} -> Bool(LessEq(rightValue, leftValue))
      [] condition.operator \in {"like", "como"} -> Bool(evaluateLike(leftValue, rightValue))
      [] condition.operator \in {"e", "and"} ->
           andRight(evaluateCondition(condition.left, row), condition, row)
      [] condition.operator \in {"ou", "or"} ->
           orRight(evaluateCondition(condition.left, row), condition, row)
      [] OTHER -> Throw("Operador nao suportado")

\* Bool(b), or Throw(message) when the evaluation raises.
evaluateCondition(condition, row) ==
  IF condition.node # "BinaryExpression"
  THEN Bool(TRUE)
  ELSE conditionValue(condition, row,
                      evaluateExpression(condition.left, row),
                      evaluateExpression(condition.right, row))

\* The first raised Error among the values vs[1..], or Undefined when none raised.
RECURSIVE FirstThrow(_)
FirstThrow(vs) ==
  IF vs = <<>> THEN Undefined
  ELSE IF IsThrow(Head(vs)) THEN Head(vs)
  ELSE FirstThrow(Tail(vs))


(***************************************************************************)
(* The SELECT pipeline (src/query/executor.js).  A step yields             *)
(* [throw, error, rows]: the rows, or the Error it raised.                 *)
(***************************************************************************)
Rows(rs) == [throw |-> FALSE, error |-> Undefined, rows |-> rs]
Raised(e) == [throw |-> TRUE, error |-> e, rows |-> <<>>]
\* r, or what F makes of r's rows when r raised nothing.
Bind(r, F(_)) == IF r.throw THEN r ELSE F(r.rows)
\* The Error e when one was raised, the rows otherwise.
ThrowOr(e, rs) == IF e # Undefined THEN Raised(e) ELSE Rows(rs)

\* The rows resultSet[i..] whose condition value is true.
RECURSIVE Filter(_, _, _)
Filter(i, resultSet, conds) ==
  IF i > Len(resultSet) THEN <<>>
  ELSE (IF conds[i] = Bool(TRUE) THEN <<resultSet[i]>> ELSE <<>>)
       \o Filter(i + 1, resultSet, conds)

filterBy(resultSet, conds) == ThrowOr(FirstThrow(conds), Filter(1, resultSet, conds))

\* resultSet.filter(row => evaluateCondition(condition, row)): the rows, or the Error.
applyWhere(resultSet, condition) ==
  filterBy(resultSet,
           [i \in 1..Len(resultSet) |-> evaluateCondition(condition, resultSet[i])])

\* One row of convertTableToResultSet: each column under its qualified and bare key.
resultRow(registro, effectiveName) ==
  [key \in {<<effectiveName, c>> : c \in DOMAIN registro}
           \cup {Bare(c) : c \in DOMAIN registro} |-> registro[key[2]]]

convertTableToResultSet(tableData, tableName, alias) ==
  [i \in 1..Len(tableData.registros) |->
     resultRow(tableData.registros[i].registro, IF alias # "" THEN alias ELSE tableName)]

\* The row of nulls of a LEFT join: the keys of the first right row that
\* start with "<rightTableName>.".
nullRow(first, rightTableName) ==
  [key \in {q \in DOMAIN first : q[1] = rightTableName} |-> Null]

\* What performJoin pushes for one left row, given the combined rows that matched.
pushedRows(leftRow, rightResultSet, joinClause, matches) ==
  IF matches # <<>> THEN matches
  ELSE IF joinClause.joinType = "LEFT"
       THEN <<Spread(leftRow,
                     nullRow(IF rightResultSet = <<>> THEN EmptyRow ELSE rightResultSet[1],
                             IF joinClause.alias # "" THEN joinClause.alias
                             ELSE joinClause.tableName))>>
       ELSE <<>>

\* The rows performJoin pushes for one left row.
JoinOneRow(leftRow, rightResultSet, joinClause) ==
  Bind(filterBy([j \in 1..Len(rightResultSet) |-> Spread(leftRow, rightResultSet[j])],
                [j \in 1..Len(rightResultSet) |->
                   evaluateCondition(joinClause.onCondition,
                                     Spread(leftRow, rightResultSet[j]))]),
       LAMBDA matches : Rows(pushedRows(leftRow, rightResultSet, joinClause, matches)))

\* one's rows followed by rest's, or the first Error raised.
Concat(one, rest) ==
  IF one.throw THEN one
  ELSE IF rest.throw THEN rest
  ELSE Rows(one.rows \o rest.rows)

RECURSIVE JoinFrom(_, _, _, _)
JoinFrom(i, leftResultSet, rightResultSet, joinClause) ==
  IF i > Len(leftResultSet) THEN Rows(<<>>)
  ELSE Concat(JoinOneRow(leftResultSet[i], rightResultSet, joinClause),
              JoinFrom(i + 1, leftResultSet, rightResultSet, joinClause))

performJoin(leftResultSet, rightResultSet, joinClause) ==
  JoinFrom(1, leftResultSet, rightResultSet, joinClause)

\* Array.prototype.join: null and undefined elements are written as "".
JoinElem(v) == IF v.k \in {"undefined", "null"} THEN "" ELSE ToStr(v)
RECURSIVE JoinWith(_, _)
JoinWith(vs, sep) ==
  IF vs = <<>> THEN ""
  ELSE IF Len(vs) = 1 THEN JoinElem(vs[1])
  ELSE JoinElem(vs[1]) \o sep \o JoinWith(Tail(vs), sep)

\* expressions.map(expr => evaluateExpression(expr, row))
groupValues(expressions, row) ==
  [e \in 1..Len(expressions) |-> evaluateExpression(expressions[e], row)]

\* The rows resultSet[i..] that are the first of their group key.
RECURSIVE Firsts(_, _, _)
Firsts(i, resultSet, keys) ==
  IF i > Len(resultSet) THEN <<>>
  ELSE (IF \A j \in 1..(i - 1) : keys[j] # keys[i] THEN <<resultSet[i]>> ELSE <<>>)
       \o Firsts(i + 1, resultSet, keys)

applyGroupBy(resultSet, expressions) ==
  ThrowOr(FirstThrow([i \in 1..Len(resultSet) |->
                        FirstThrow(groupValues(expressions, resultSet[i]))]),
          Firsts(1, resultSet,
                 [i \in 1..Len(resultSet) |->
                    JoinWith(groupValues(expressions, resultSet[i]), "|")]))

getExpressionName(expression) ==
  CASE expression.node = "IdentifierExpression" -> expression.name
    [] expression.node = "LiteralExpression" -> ToStr(expression.value)
    [] OTHER -> "expressao"

\* The columns of row whose key starts with "<tableName>.", under their bare names.
columnsOf(row, tableName) ==
  [key \in {Bare(q[2]) : q \in {x \in DOMAIN row : x[1] = tableName}}
     |-> row[<<tableName, key[2]>>]]

\* projectedRow after the select-list entries columns[c..] are applied to it;
\* a row holding the key <<"throw", "">> stands for a raised Error.
ThrowKey == <<"throw", "">>
RECURSIVE ProjectFrom(_, _, _, _)
\* projectedRow[column.alias || getExpressionName(column.expression)] = value
projectValue(c, columns, row, projectedRow, value) ==
  IF IsThrow(value)
  THEN [key \in {ThrowKey} |-> value]
  ELSE ProjectFrom(c + 1, columns, row,
                   Spread(projectedRow,
                          [key \in {Bare(IF columns[c].alias # "" THEN columns[c].alias
                                         ELSE getExpressionName(columns[c].expression))}
                             |-> value]))

ProjectFrom(c, columns, row, projectedRow) ==
  IF c > Len(columns) THEN projectedRow
  ELSE IF columns[c].expression.node = "AllColumnsExpression"
       THEN IF columns[c].expression.tableName # ""
            THEN ProjectFrom(c + 1, columns, row,
                             Spread(projectedRow, columnsOf(row, columns[c].expression.tableName)))
            ELSE ProjectFrom(c + 1, columns, row, Spread(projectedRow, row))
       ELSE projectValue(c, columns, row, projectedRow,
                         evaluateExpression(columns[c].expression, row))

projectedRows(projected) ==
  ThrowOr(FirstThrow([i \in 1..Len(projected) |-> Get(projected[i], ThrowKey)]), projected)

applyProjection(resultSet, selectList) ==
  IF resultSet = <<>> THEN Rows(resultSet)
  ELSE projectedRows([i \in 1..Len(resultSet) |->
                        ProjectFrom(1, selectList, resultSet[i], EmptyRow)])

\* aValue < bValue ? -1 : aValue > bValue ? 1 : 0
comparisonOf(aValue, bValue) ==
  IF Less(aValue, bValue) THEN -1 ELSE IF Less(bValue, aValue) THEN 1 ELSE 0

\* if (comparison !== 0) return direction === 'DESC' ? -comparison : comparison
directed(comparison, direction, rest) ==
  IF comparison # 0 THEN (IF direction = "DESC" THEN -comparison ELSE comparison) ELSE rest

\* The comparator of applyOrderBy from its k-th ordering term on: -1, 0 or 1.
\* The ordering terms of the model are identifiers, whose evaluation never raises.
RECURSIVE Compare(_, _, _, _)
Compare(k, expressions, a, b) ==
  IF k > Len(expressions) THEN 0
  ELSE directed(comparisonOf(evaluateExpression(expressions[k].expression, a),
                             evaluateExpression(expressions[k].expression, b)),
                expressions[k].direction,
                Compare(k + 1, expressions, a, b))

\* Array.prototype.sort is stable: an insertion sort that puts each row after
\* the last row the comparator does not put after it.  For up to three rows
\* this is also the order of the comparisons the engine makes, so the result
\* is the engine's even when the comparator is not a consistent order.
RECURSIVE InsertRow(_, _, _)
InsertRow(sorted, x, expressions) ==
  IF sorted = <<>> THEN <<x>>
  ELSE IF Compare(1, expressions, sorted[Len(sorted)], x) > 0
       THEN InsertRow(SubSeq(sorted, 1, Len(sorted) - 1), x, expressions)
            \o <<sorted[Len(sorted)]>>
       ELSE sorted \o <<x>>

RECURSIVE SortFrom(_, _, _, _)
SortFrom(i, resultSet, sorted, expressions) ==
  IF i > Len(resultSet) THEN sorted
  ELSE SortFrom(i + 1, resultSet, InsertRow(sorted, resultSet[i], expressions), expressions)

applyOrderBy(resultSet, expressions) == SortFrom(1, resultSet, <<>>, expressions)


(***************************************************************************)
(* The storage manager (src/storage/manager.js).  A database file is       *)
(* [existe, tabelas]; a table is [colunas, constraints, registros], with   *)
(* colunas the declared columns in order, each [nome, tipo, constraints],  *)
(* and registros the records in key order, each [id, registro] for the key *)
(* reg_<id>.  NoNode is the null that loadTable and loadDatabase return.   *)
(* What the XML builder writes the XML parser reads back unchanged for the *)
(* values of the model.                                                    *)
(***************************************************************************)
DbNames == {"loja"}
NoTables == [t \in {} |-> NoNode]
NoFile == [existe |-> FALSE, tabelas |-> NoTables]

arquivoExiste(st, databaseName) == databaseName \in DOMAIN st /\ st[databaseName].existe

loadDatabase(st, databaseName) ==
  IF ~arquivoExiste(st, databaseName) THEN NoNode ELSE st[databaseName]

\* dbData.banco.tabelas[tableName] || null
tableOf(dbData, tableName) ==
  IF dbData = NoNode THEN NoNode
  ELSE IF tableName \notin DOMAIN dbData.tabelas THEN NoNode
  ELSE dbData.tabelas[tableName]

loadTable(st, databaseName, tableName) == tableOf(loadDatabase(st, databaseName), tableName)

\* dbData.banco.tabelas[tableName] = tableData
putTable(tabelas, tableName, tableData) ==
  [t \in (DOMAIN tabelas) \cup {tableName} |->
     IF t = tableName THEN tableData ELSE tabelas[t]]

\* [throw, error, arquivos]: the store after the call, or the Error raised.
saveTable(st, databaseName, tableName, tableData) ==
  IF loadDatabase(st, databaseName) = NoNode
  THEN [throw |-> TRUE, error |-> "Banco nao encontrado", arquivos |-> st]
  ELSE [throw |-> FALSE, error |-> "",
        arquivos |-> [st EXCEPT ![databaseName].tabelas = putTable(@, tableName, tableData)]]

Sucesso(mensagem, resultados) ==
  [sucesso |-> TRUE, mensagem |-> mensagem, resultados |-> resultados, lancou |-> FALSE]
Falha(mensagem) ==
  [sucesso |-> FALSE, mensagem |-> mensagem, resultados |-> <<>>, lancou |-> FALSE]
\* What an executor or storage call yields: a result and the store it leaves,
\* or the Error it raised and the store at that moment.
Return(res, st) == [throw |-> FALSE, error |-> "", resultado |-> res, arquivos |-> st]
Raise(msg, st) == [throw |-> TRUE, error |-> msg, resultado |-> Falha(msg), arquivos |-> st]

createDatabase(st, databaseName) ==
  IF arquivoExiste(st, databaseName)
  THEN Return(Falha("Banco ja existe"), st)
  ELSE Return(Sucesso("Banco criado com sucesso", <<>>),
              [d \in (DOMAIN st) \cup {databaseName} |->
                 IF d = databaseName THEN [existe |-> TRUE, tabelas |-> NoTables]
                 ELSE st[d]])

Truthy(v) ==
  CASE v.k = "number" -> ~IsNaN(v) /\ v.n # 0
    [] v.k = "string" -> v.s # ""
    [] v.k = "boolean" -> v.n = 1
    [] OTHER -> FALSE

\* The constraint token createTable writes for one column constraint ("" when
\* the switch has no case for its type).
constraintString(constraint) ==
  CASE constraint.type \in {"PRIMARY_KEY", "UNIQUE", "NOT_NULL", "AUTO_INCREMENT"} ->
         constraint.type
    [] constraint.type = "DEFAULT" ->
         IF constraint.options.value.node = "LiteralExpression"
            /\ Truthy(constraint.options.value.value)
         THEN "DEFAULT:" \o ToStr(constraint.options.value.value)
         ELSE "DEFAULT:[object Object]"
    [] OTHER -> ""

constraintStrings(colDef) ==
  SelectSeq([i \in 1..Len(colDef.constraints) |-> constraintString(colDef.constraints[i])],
            LAMBDA c : c # "")

\* tableStructure: the columns and the table-level constraints, no record yet.
tableStructure(columnDefinitions, tableConstraints) ==
  [colunas |-> [i \in 1..Len(columnDefinitions) |->
                  [nome |-> columnDefinitions[i].name,
                   tipo |-> columnDefinitions[i].type,
                   constraints |-> constraintStrings(columnDefinitions[i])]],
   constraints |-> [i \in 1..Len(tableConstraints) |->
                      [type |-> tableConstraints[i].type,
                       columnName |-> tableConstraints[i].columnName,
                       referencedTable |-> tableConstraints[i].referencedTable,
                       referencedColumn |-> tableConstraints[i].referencedColumn]],
   registros |-> <<>>]

\* A createTable that does not look for the table first.
createTableSobrescrevendo(st, databaseName, tableName, columnDefinitions, tableConstraints) ==
  IF loadDatabase(st, databaseName) = NoNode THEN Raise("Banco nao encontrado", st)
  ELSE Return(Sucesso("Tabela criada com sucesso", <<>>),
              [st EXCEPT ![databaseName].tabelas =
                 putTable(@, tableName,
                          tableStructure(columnDefinitions, tableConstraints))])

createTable(st, databaseName, tableName, columnDefinitions, tableConstraints) ==
  IF loadDatabase(st, databaseName) = NoNode THEN Raise("Banco nao encontrado", st)
  ELSE IF tableName \in DOMAIN st[databaseName].tabelas
       THEN Return(Falha("Tabela ja existe"), st)
       ELSE Return(Sucesso("Tabela criada com sucesso", <<>>),
                   [st EXCEPT ![databaseName].tabelas =
                      putTable(@, tableName,
                               tableStructure(columnDefinitions, tableConstraints))])


(***************************************************************************)
(* The query executor (src/query/executor.js).  cur is currentDatabase.    *)
(***************************************************************************)
\* saveTable as an executor's last step before it returns res.
savedReturn(saved, res) ==
  IF saved.throw THEN Raise(saved.error, saved.arquivos) ELSE Return(res, saved.arquivos)
SaveAndReturn(st, cur, tableName, tableData, res) ==
  savedReturn(saveTable(st, cur, tableName, tableData), res)

RECURSIVE JoinAll(_, _, _, _, _)
JoinAll(j, joinClauses, resultSet, st, cur) ==
  IF j > Len(joinClauses) THEN Rows(resultSet)
  ELSE IF loadTable(st, cur, joinClauses[j].tableName) = NoNode
       THEN Raised(Throw("Tabela nao encontrada"))
       ELSE Bind(performJoin(resultSet,
                             convertTableToResultSet(
                               loadTable(st, cur, joinClauses[j].tableName),
                               joinClauses[j].tableName, joinClauses[j].alias),
                             joinClauses[j]),
                 LAMBDA rs : JoinAll(j + 1, joinClauses, rs, st, cur))

whereStep(ast, rs) ==
  IF ast.whereClause # NoNode THEN applyWhere(rs, ast.whereClause.condition) ELSE Rows(rs)
groupByStep(ast, rs) ==
  IF ast.groupByClause # <<>> THEN applyGroupBy(rs, ast.groupByClause) ELSE Rows(rs)
orderByStep(ast, rs) ==
  IF ast.orderByClause # <<>> THEN Rows(applyOrderBy(rs, ast.orderByClause)) ELSE Rows(rs)

\* executeSelect from the main table's rows on: joins, WHERE, GROUP BY,
\* projection, ORDER BY.
\* A SELECT that orders the rows before it projects them.
selectFromOrdenandoAntes(ast, st, cur, from) ==
  Bind(Bind(Bind(Bind(JoinAll(1, ast.joinClauses, from, st, cur),
                      LAMBDA rs : whereStep(ast, rs)),
                 LAMBDA rs : groupByStep(ast, rs)),
            LAMBDA rs : orderByStep(ast, rs)),
       LAMBDA rs : applyProjection(rs, ast.selectList))

selectFrom(ast, st, cur, from) ==
  Bind(Bind(Bind(Bind(JoinAll(1, ast.joinClauses, from, st, cur),
                      LAMBDA rs : whereStep(ast, rs)),
                 LAMBDA rs : groupByStep(ast, rs)),
            LAMBDA rs : applyProjection(rs, ast.selectList)),
       LAMBDA rs : orderByStep(ast, rs))

selectReturn(ordered, st) ==
  IF ordered.throw THEN Raise(ordered.error.s, st)
  ELSE Return(Sucesso(ToString(Len(ordered.rows)) \o " registro(s) encontrado(s)",
                      ordered.rows), st)

\* A SELECT that filters the stored table in place and saves it.
executeSelectSalvando(ast, st, cur) ==
  IF cur = "" THEN Raise("Nenhum banco selecionado", st)
  ELSE IF loadTable(st, cur, ast.fromClause.tableName) = NoNode
       THEN Raise("Tabela nao encontrada", st)
       ELSE LET tableData == loadTable(st, cur, ast.fromClause.tableName)
                r == selectReturn(
                       selectFrom(ast, st, cur,
                                  convertTableToResultSet(tableData, ast.fromClause.tableName,
                                                          ast.fromClause.alias)),
                       st)
                kept == SelectSeq(tableData.registros,
                                  LAMBDA rec : ast.whereClause = NoNode
                                               \/ evaluateCondition(ast.whereClause.condition,
                                                                    RecordRow(rec.registro))
                                                  = Bool(TRUE))
            IN IF r.throw THEN r
               ELSE SaveAndReturn(st, cur, ast.fromClause.tableName,
                                  [tableData EXCEPT !.registros = kept], r.resultado)

executeSelect(ast, st, cur) ==
  IF cur = "" THEN Raise("Nenhum banco selecionado", st)
  ELSE IF loadTable(st, cur, ast.fromClause.tableName) = NoNode
       THEN Raise("Tabela nao encontrada", st)
       ELSE selectReturn(
              selectFrom(ast, st, cur,
                         convertTableToResultSet(loadTable(st, cur, ast.fromClause.tableName),
                                                 ast.fromClause.tableName,
                                                 ast.fromClause.alias)),
              st)

validateType(value, expectedType) ==
  CASE expectedType = "numero" -> value.k = "number" /\ ~IsNaN(value)
    [] expectedType = "texto" -> value.k = "string"
    [] expectedType = "booleano" -> value.k = "boolean"
    [] OTHER -> TRUE

\* tableData.colunas[columnName]?.['@tipo'] ("" when the column is not declared).
columnTypeOf(tableData, columnName) ==
  IF \E i \in 1..Len(tableData.colunas) : tableData.colunas[i].nome = columnName
  THEN tableData.colunas[CHOOSE i \in 1..Len(tableData.colunas) :
                           tableData.colunas[i].nome = columnName].tipo
  ELSE ""

\* record[column] = value
Assign(record, column, value) ==
  [c \in (DOMAIN record) \cup {column} |-> IF c = column THEN value ELSE record[c]]
NoRecord == [c \in {} |-> Undefined]
\* record[column], undefined when the record has no such property.
campo(registro, c) == IF c \in DOMAIN registro THEN registro[c] ELSE Undefined

\* The loop of executeInsert from its i-th column on: [throw, error, registro].
RECURSIVE BuildRecord(_, _, _, _, _)
\* One turn of the loop, given the value and the declared type of the column.
buildColumn(i, columns, values, tableData, newRecord, value, columnType) ==
  IF IsThrow(value)
  THEN [throw |-> TRUE, error |-> value.s, registro |-> newRecord]
  ELSE IF columnType # "" /\ ~validateType(value, columnType)
  THEN [throw |-> TRUE, error |-> "Tipo invalido para coluna", registro |-> newRecord]
  ELSE BuildRecord(i + 1, columns, values, tableData, Assign(newRecord, columns[i], value))

BuildRecord(i, columns, values, tableData, newRecord) ==
  IF i > Len(columns) THEN [throw |-> FALSE, error |-> "", registro |-> newRecord]
  ELSE buildColumn(i, columns, values, tableData, newRecord,
                   evaluateExpression(values[i], EmptyRow),
                   columnTypeOf(tableData, columns[i]))

\* registros[`reg_${nextId}`] = record: an existing key keeps its place.
PutRecord(registros, nextId, record) ==
  IF \E i \in 1..Len(registros) : registros[i].id = nextId
  THEN [i \in 1..Len(registros) |->
          IF registros[i].id = nextId THEN [id |-> nextId, registro |-> record]
          ELSE registros[i]]
  ELSE Append(registros, [id |-> nextId, registro |-> record])

\* executeInsert once the record is built: nextId is the record count plus one.
insertBuilt(ast, st, cur, tableData, built) ==
  IF built.throw THEN Raise(built.error, st)
  ELSE SaveAndReturn(st, cur, ast.tableName,
                     [tableData EXCEPT
                        !.registros = PutRecord(@, Len(tableData.registros) + 1,
                                                built.registro)],
                     Sucesso("Registro inserido com sucesso", <<>>))

\* An arity check that refuses only a list of too few values.
insertColumnsSoFaltando(ast, st, cur, tableData, columns) ==
  IF Len(ast.values) < Len(columns)
  THEN Raise("Numero de valores nao corresponde ao numero de colunas", st)
  ELSE insertBuilt(ast, st, cur, tableData,
                   BuildRecord(1, columns, ast.values, tableData, NoRecord))

\* executeInsert once the columns to fill are known.
insertColumns(ast, st, cur, tableData, columns) ==
  IF Len(ast.values) # Len(columns)
  THEN Raise("Numero de valores nao corresponde ao numero de colunas", st)
  ELSE insertBuilt(ast, st, cur, tableData,
                   BuildRecord(1, columns, ast.values, tableData, NoRecord))

\* executeInsert once the table is loaded.
insertInto(ast, st, cur, tableData) ==
  IF tableData = NoNode THEN Raise("Tabela nao encontrada", st)
  ELSE insertColumns(ast, st, cur, tableData,
                     IF ast.columns # <<>> THEN ast.columns
                     ELSE [i \in 1..Len(tableData.colunas) |-> tableData.colunas[i].nome])

executeInsert(ast, st, cur) ==
  IF cur = "" THEN Raise("Nenhum banco selecionado", st)
  ELSE insertInto(ast, st, cur, loadTable(st, cur, ast.tableName))

\* The assignments of UPDATE from the a-th on, applied to one record:
\* [throw, error, registro].
RECURSIVE ApplyAssignments(_, _, _)
\* record[assignment.column] = newValue
assignValue(a, assignments, record, newValue) ==
  IF IsThrow(newValue)
  THEN [throw |-> TRUE, error |-> newValue.s, registro |-> record]
  ELSE ApplyAssignments(a + 1, assignments, Assign(record, assignments[a].column, newValue))

ApplyAssignments(a, assignments, record) ==
  IF a > Len(assignments) THEN [throw |-> FALSE, error |-> "", registro |-> record]
  ELSE assignValue(a, assignments, record,
                   evaluateExpression(assignments[a].value, RecordRow(record)))

\* shouldUpdate, shouldDelete: true without a WHERE clause.
shouldApply(ast, record) ==
  IF ast.whereClause # NoNode
  THEN evaluateCondition(ast.whereClause.condition, RecordRow(record))
  ELSE Bool(TRUE)

\* The loop of executeUpdate from the i-th record on:
\* [throw, error, registros, updatedCount], registros being the in-memory table.
RECURSIVE UpdateFrom(_, _, _, _)
\* The i-th record after its assignments, which may have raised part-way.
updateApplied(i, ast, registros, updatedCount, applied) ==
  IF applied.throw
  THEN [throw |-> TRUE, error |-> applied.error,
        registros |-> [registros EXCEPT ![i].registro = applied.registro],
        updatedCount |-> updatedCount]
  ELSE UpdateFrom(i + 1, ast, [registros EXCEPT ![i].registro = applied.registro],
                  updatedCount + 1)

updateRecord(i, ast, registros, updatedCount, shouldUpdate) ==
  IF IsThrow(shouldUpdate)
  THEN [throw |-> TRUE, error |-> shouldUpdate.s, registros |-> registros,
        updatedCount |-> updatedCount]
  ELSE IF shouldUpdate # Bool(TRUE)
  THEN UpdateFrom(i + 1, ast, registros, updatedCount)
  ELSE updateApplied(i, ast, registros, updatedCount,
                     ApplyAssignments(1, ast.assignments, registros[i].registro))

UpdateFrom(i, ast, registros, updatedCount) ==
  IF i > Len(registros)
  THEN [throw |-> FALSE, error |-> "", registros |-> registros, updatedCount |-> updatedCount]
  ELSE updateRecord(i, ast, registros, updatedCount, shouldApply(ast, registros[i].registro))

\* An executeUpdate that saves the table before it lets the Error out.
updateDoneSalvando(ast, st, cur, tableData, done) ==
  IF done.throw
  THEN Raise(done.error,
             saveTable(st, cur, ast.tableName,
                       [tableData EXCEPT !.registros = done.registros]).arquivos)
  ELSE SaveAndReturn(st, cur, ast.tableName,
                     [tableData EXCEPT !.registros = done.registros],
                     Sucesso(ToString(done.updatedCount) \o " registro(s) atualizado(s)", <<>>))

\* executeUpdate after its loop: an Error leaves the file as it was.
updateDone(ast, st, cur, tableData, done) ==
  IF done.throw THEN Raise(done.error, st)
  ELSE SaveAndReturn(st, cur, ast.tableName,
                     [tableData EXCEPT !.registros = done.registros],
                     Sucesso(ToString(done.updatedCount) \o " registro(s) atualizado(s)", <<>>))

updateIn(ast, st, cur, tableData) ==
  IF tableData = NoNode THEN Raise("Tabela nao encontrada", st)
  ELSE updateDone(ast, st, cur, tableData, UpdateFrom(1, ast, tableData.registros, 0))

executeUpdate(ast, st, cur) ==
  IF cur = "" THEN Raise("Nenhum banco selecionado", st)
  ELSE updateIn(ast, st, cur, loadTable(st, cur, ast.tableName))

\* The loop of executeDelete from the i-th record on:
\* [throw, error, remainingRecords, deletedCount].
RECURSIVE DeleteFrom(_, _, _, _, _)
deleteRecord(i, ast, registros, remainingRecords, deletedCount, shouldDelete) ==
  IF IsThrow(shouldDelete)
  THEN [throw |-> TRUE, error |-> shouldDelete.s,
        remainingRecords |-> remainingRecords, deletedCount |-> deletedCount]
  ELSE IF shouldDelete = Bool(TRUE)
  THEN DeleteFrom(i + 1, ast, registros, remainingRecords, deletedCount + 1)
  ELSE DeleteFrom(i + 1, ast, registros, Append(remainingRecords, registros[i]), deletedCount)

DeleteFrom(i, ast, registros, remainingRecords, deletedCount) ==
  IF i > Len(registros)
  THEN [throw |-> FALSE, error |-> "", remainingRecords |-> remainingRecords,
        deletedCount |-> deletedCount]
  ELSE deleteRecord(i, ast, registros, remainingRecords, deletedCount,
                    shouldApply(ast, registros[i].registro))

deleteDone(ast, st, cur, tableData, done) ==
  IF done.throw THEN Raise(done.error, st)
  ELSE SaveAndReturn(st, cur, ast.tableName,
                     [tableData EXCEPT !.registros = done.remainingRecords],
                     Sucesso(ToString(done.deletedCount) \o " registro(s) removido(s)", <<>>))

deleteIn(ast, st, cur, tableData) ==
  IF tableData = NoNode THEN Raise("Tabela nao encontrada", st)
  ELSE deleteDone(ast, st, cur, tableData, DeleteFrom(1, ast, tableData.registros, <<>>, 0))

executeDelete(ast, st, cur) ==
  IF cur = "" THEN Raise("Nenhum banco selecionado", st)
  ELSE deleteIn(ast, st, cur, loadTable(st, cur, ast.tableName))

\* createTable is called without its fourth argument: tableConstraints = [].
executeCreateTable(ast, st, cur) ==
  IF cur = "" THEN Raise("Nenhum banco selecionado", st)
  ELSE createTable(st, cur, ast.tableName, ast.columns, <<>>)

executeCreateDatabase(ast, st) == createDatabase(st, ast.databaseName)

\* ast.type of a node that may have no such property.
TypeOf(ast) == IF "type" \in DOMAIN ast THEN ast.type ELSE "undefined"

\* A dispatch that executes the first statement of an array.
DispatchPrimeiro(ast, st, cur) ==
  CASE ast.node = "SelectStatement" -> executeSelect(ast, st, cur)
    [] ast.node = "InsertStatement" -> executeInsert(ast, st, cur)
    [] ast.node = "UpdateStatement" -> executeUpdate(ast, st, cur)
    [] ast.node = "DeleteStatement" -> executeDelete(ast, st, cur)
    [] ast.node = "CreateTableStatement" -> executeCreateTable(ast, st, cur)
    [] ast.node = "Array" /\ ast.statements # <<>> ->
         IF TypeOf(ast.statements[1]) = "CREATE_DATABASE"
         THEN executeCreateDatabase(ast.statements[1], st)
         ELSE Raise("Tipo de comando nao implementado", st)
    [] OTHER -> IF TypeOf(ast) = "CREATE_DATABASE"
                THEN executeCreateDatabase(ast, st)
                ELSE Raise("Tipo de comando nao implementado", st)

\* execute: the try block, [throw, error, resultado, arquivos].
Dispatch(ast, st, cur) ==
  CASE ast.node = "SelectStatement" -> executeSelect(ast, st, cur)
    [] ast.node = "InsertStatement" -> executeInsert(ast, st, cur)
    [] ast.node = "UpdateStatement" -> executeUpdate(ast, st, cur)
    [] ast.node = "DeleteStatement" -> executeDelete(ast, st, cur)
    [] ast.node = "CreateTableStatement" -> executeCreateTable(ast, st, cur)
    [] OTHER -> IF TypeOf(ast) = "CREATE_DATABASE"
                THEN executeCreateDatabase(ast, st)
                ELSE Raise("Tipo de comando nao implementado", st)

\* execute: the catch block turns an Error into a result.
caught(r) ==
  IF r.throw
  THEN [resultado |-> Falha("Erro na execucao: " \o r.error), arquivos |-> r.arquivos]
  ELSE [resultado |-> r.resultado, arquivos |-> r.arquivos]

\* execute: what it returns and the store it leaves.
execute(ast, st, cur) == caught(Dispatch(ast, st, cur))

(***************************************************************************)
(* From the typed statement to the AST.  Lexer's constructor lower-cases   *)
(* the whole input before scanning (lexer.js:79), string literals          *)
(* included; the identifiers and keywords of the model are typed in lower  *)
(* case already.  A typed statement has the shape Parser gives it.         *)
(***************************************************************************)
RECURSIVE lexExpression(_)
lexExpression(expr) ==
  CASE expr.node = "LiteralExpression" ->
         IF expr.value.k = "string"
         THEN LiteralExpression(Str(toLowerCase(expr.value.s)), expr.type)
         ELSE expr
    [] expr.node = "BinaryExpression" ->
         BinaryExpression(lexExpression(expr.left), expr.operator, lexExpression(expr.right))
    [] OTHER -> expr

lexClause(clause) ==
  IF clause = NoNode THEN NoNode ELSE WhereClause(lexExpression(clause.condition))

\* new Parser(new Lexer(command).tokenize()).parse()
RECURSIVE parse(_)
parse(typed) ==
  CASE typed.node = "SelectStatement" ->
         [typed EXCEPT
            !.selectList = [i \in 1..Len(@) |->
                              ColumnExpression(lexExpression(@[i].expression), @[i].alias)],
            !.whereClause = lexClause(@),
            !.joinClauses = [i \in 1..Len(@) |->
                               [@[i] EXCEPT !.onCondition = lexExpression(@)]]]
    [] typed.node = "InsertStatement" ->
         [typed EXCEPT !.values = [i \in 1..Len(@) |-> lexExpression(@[i])]]
    [] typed.node = "UpdateStatement" ->
         [typed EXCEPT
            !.assignments = [i \in 1..Len(@) |->
                               [column |-> @[i].column, value |-> lexExpression(@[i].value)]],
            !.whereClause = lexClause(@)]
    [] typed.node = "DeleteStatement" -> [typed EXCEPT !.whereClause = lexClause(@)]
    [] typed.node = "Array" ->
         StatementArray([i \in 1..Len(typed.statements) |-> parse(typed.statements[i])])
    [] OTHER -> typed

(***************************************************************************)
(* The statements of the model.                                            *)
(***************************************************************************)
Id(name) == IdentifierExpression(name, "")
QId(tableName, name) == IdentifierExpression(name, tableName)
NumLit(n) == LiteralExpression(Num(n), "NUMBER")
StrLit(s) == LiteralExpression(Str(s), "STRING")
Star == <<ColumnExpression(AllColumnsExpression(""), "")>>
Select(selectList, fromClause, whereClause, joinClauses) ==
  SelectStatement(selectList, fromClause, whereClause, joinClauses, <<>>, <<>>)
Set(column, value) == [column |-> column, value |-> value]

IdEq1 == BinaryExpression(Id("id"), "=", NumLit(1))
IdEq2 == BinaryExpression(Id("id"), "=", NumLit(2))
NomeEqA == BinaryExpression(Id("nome"), "=", StrLit("a"))
NomeEqB == BinaryExpression(Id("nome"), "=", StrLit("b"))
OnUsuario == BinaryExpression(QId("u", "id"), "=", QId("p", "usuario_id"))

\* criar banco loja
CriarLoja == CreateDatabaseObject("loja")

\* criar tabela usuarios (id:numero primaria chave auto incremento, nome:texto)
CriarUsuarios ==
  CreateTableStatement("usuarios",
    <<ColumnDefinition("id", "numero", <<ConstraintDefinition("PRIMARY_KEY", NoNode),
                                         ConstraintDefinition("AUTO_INCREMENT", NoNode)>>),
      ColumnDefinition("nome", "texto", <<>>)>>, <<>>)
\* criar tabela posts (id:numero, usuario_id:numero,
\*                     estrangeira chave (usuario_id) referencia usuarios (id))
CriarPosts ==
  CreateTableStatement("posts",
    <<ColumnDefinition("id", "numero", <<>>), ColumnDefinition("usuario_id", "numero", <<>>)>>,
    <<TableConstraint("FOREIGN_KEY", "usuario_id", "usuarios", "id")>>)
\* criar tabela produtos (id: numero, nome: texto, preco: numero)
CriarProdutos ==
  CreateTableStatement("produtos",
    <<ColumnDefinition("id", "numero", <<>>), ColumnDefinition("nome", "texto", <<>>),
      ColumnDefinition("preco", "numero", <<>>)>>, <<>>)
CreateTablePool == {CriarUsuarios, CriarPosts, CriarProdutos}

\* inserir em produtos (id, nome, preco) valores (1, "Mouse", 50)
InserirMouse ==
  InsertStatement("produtos", <<"id", "nome", "preco">>, <<NumLit(1), StrLit("Mouse"), NumLit(50)>>)
InsertPool ==
  { InsertStatement("usuarios", <<"nome">>, <<StrLit("a")>>),
    InsertStatement("usuarios", <<"id", "nome">>, <<NumLit(1), StrLit("a")>>),
    InsertStatement("usuarios", <<>>, <<NumLit(2), StrLit("b")>>),
    InsertStatement("usuarios", <<"id", "nome">>, <<NumLit(1)>>),
    InsertStatement("usuarios", <<"id", "nome">>, <<StrLit("a"), StrLit("a")>>),
    InsertStatement("posts", <<"id", "usuario_id">>, <<NumLit(1), NumLit(1)>>),
    InsertStatement("posts", <<"id", "usuario_id">>, <<NumLit(2), NumLit(999)>>),
    InserirMouse }

\* selecionar * de produtos onde preco > 10
SelecionarCaros ==
  Select(Star, FromClause("produtos", ""),
         WhereClause(BinaryExpression(Id("preco"), ">", NumLit(10))), <<>>)
\* selecionar * de usuarios u esquerda juntar posts p em u.id = p.usuario_id
SelecionarEsquerda ==
  Select(Star, FromClause("usuarios", "u"), NoNode,
         <<JoinClause("LEFT", "posts", OnUsuario, "p")>>)
\* selecionar * de usuarios u direita juntar posts p em u.id = p.usuario_id
SelecionarDireita ==
  Select(Star, FromClause("usuarios", "u"), NoNode,
         <<JoinClause("RIGHT", "posts", OnUsuario, "p")>>)
SelectPool ==
  { SelecionarCaros,
    SelecionarEsquerda,
    SelecionarDireita,
    Select(Star, FromClause("usuarios", ""), NoNode, <<>>),
    Select(Star, FromClause("usuarios", ""), WhereClause(NomeEqA), <<>>),
    Select(Star, FromClause("usuarios", "u"), NoNode,
           <<JoinClause("INNER", "posts", OnUsuario, "p")>>),
    Select(Star, FromClause("usuarios", ""),
           WhereClause(BinaryExpression(IdEq1, "e", NomeEqA)), <<>>),
    Select(Star, FromClause("usuarios", ""),
           WhereClause(BinaryExpression(IdEq1, "ou", NomeEqB)), <<>>),
    \* selecionar nome de usuarios agrupar por nome ordenar por nome decrescente
    SelectStatement(<<ColumnExpression(Id("nome"), "")>>, FromClause("usuarios", ""), NoNode,
                    <<>>, <<OrderByExpression(Id("nome"), "DESC")>>, <<Id("nome")>>) }

UpdatePool ==
  { UpdateStatement("usuarios", <<Set("id", NumLit(1))>>, NoNode),
    UpdateStatement("usuarios", <<Set("nome", StrLit("b"))>>, WhereClause(IdEq1)),
    UpdateStatement("usuarios", <<Set("nome", StrLit("b"))>>,
                    WhereClause(BinaryExpression(IdEq1, "e", NomeEqA))),
    \* atualizar usuarios definir nome = "b", id = id = 1
    UpdateStatement("usuarios", <<Set("nome", StrLit("b")), Set("id", IdEq1)>>, NoNode) }

DeletePool ==
  { DeleteStatement("usuarios", WhereClause(NomeEqA)),
    DeleteStatement("usuarios", NoNode),
    DeleteStatement("usuarios", WhereClause(BinaryExpression(IdEq1, "ou", IdEq2))) }

\* What parse returns for an input of two statements, and for an empty input.
ArrayPool == { StatementArray(<<CriarLoja, CriarLoja>>), StatementArray(<<>>) }

UseDatabaseCommand(databaseName) == [node |-> "usar banco", databaseName |-> databaseName]

(***************************************************************************)
(* Scenario A of the specification, observed: cenario counts how many of   *)
(* its statements have just been issued in order, from a store without the *)
(* database loja, with loja selected before its table is created.          *)
(***************************************************************************)
cenarioAfter(typed, st, cur, c) ==
  CASE typed = CriarLoja /\ ~arquivoExiste(st, "loja") -> 1
    [] typed = CriarProdutos /\ c = 1 /\ cur = "loja" -> 2
    [] typed = InserirMouse /\ c = 2 -> 3
    [] typed = SelecionarCaros /\ c = 3 -> 4
    [] OTHER -> 0

(***************************************************************************)
(* The executor's state machine.                                           *)
(***************************************************************************)
\* The records of one table, none when it does not exist.
registrosDe(tableData) == IF tableData = NoNode THEN 0 ELSE Len(tableData.registros)
TotalRegistros(st) ==
  registrosDe(loadTable(st, "loja", "usuarios"))
  + registrosDe(loadTable(st, "loja", "posts"))
  + registrosDe(loadTable(st, "loja", "produtos"))

ExecInit ==
  /\ arquivos = [d \in DbNames |-> NoFile]
  /\ currentDatabase = ""
  /\ entrada = NoNode
  /\ resultado = Sucesso("", <<>>)
  /\ cenario = 0
  /\ emCurso = <<>>

\* No call of parse has returned yet.
NotParsed == [err |-> FALSE, message |-> "", node |-> NoNode, pos |-> 0]

LexIdle ==
  /\ lexModo = "parado"
  /\ gramatica = <<>>
  /\ tokens = <<>>
  /\ tokenHistory = <<>>
  /\ parsed = NotParsed

\* processSQLCommand: lex, parse and execute one typed statement; r is what
\* execute returned and the store it left.
Executed(typed, r) ==
  /\ arquivos' = r.arquivos
  /\ resultado' = r.resultado
  /\ entrada' = typed
  /\ cenario' = cenarioAfter(typed, arquivos, currentDatabase, cenario)
  /\ UNCHANGED <<currentDatabase, emCurso, lexVars>>

Execute(typed) == Executed(typed, execute(parse(typed), arquivos, currentDatabase))

ExecuteSelect == \E typed \in SelectPool : Execute(typed)
ExecuteInsert ==
  /\ TotalRegistros(arquivos) < MaxRegistros
  /\ \E typed \in InsertPool : Execute(typed)
ExecuteUpdate == \E typed \in UpdatePool : Execute(typed)
ExecuteDelete == \E typed \in DeletePool : Execute(typed)
ExecuteCreateTable == \E typed \in CreateTablePool : Execute(typed)
ExecuteCreateDatabase == Execute(CriarLoja)
ExecuteArray == \E typed \in ArrayPool : Execute(typed)

\* handleUseDatabase: "usar banco <nome>" selects a database that exists.
handleUseDatabase ==
  \E dbName \in DbNames :
    /\ entrada' = UseDatabaseCommand(dbName)
    /\ IF arquivoExiste(arquivos, dbName)
       THEN /\ currentDatabase' = dbName
            /\ resultado' = Sucesso("Banco selecionado", <<>>)
       ELSE /\ currentDatabase' = currentDatabase
            /\ resultado' = Falha("Banco nao encontrado")
    /\ UNCHANGED <<arquivos, cenario, emCurso, lexVars>>

Init == ExecInit /\ LexIdle

Next ==
  \/ ExecuteSelect
  \/ ExecuteInsert
  \/ ExecuteUpdate
  \/ ExecuteDelete
  \/ ExecuteCreateTable
  \/ ExecuteCreateDatabase
  \/ ExecuteArray
  \/ handleUseDatabase

Spec == Init /\ [][Next]_vars


(***************************************************************************)
(* SELECT over a stored table.  The process starts on the data files that  *)
(* earlier runs left: database loja with table usuarios (as CriarUsuarios  *)
(* creates it) holding the records that INSERT statements wrote, keyed     *)
(* reg_1, reg_2, ...  A record has the columns its INSERT listed: id and   *)
(* nome are each present or absent.  "usar banco loja" has been typed.     *)
(***************************************************************************)
\* The stored table holds at most this many records.
MaxLinhas == 3

IdsEscritos == {Num(1), Num(2)}
NomesEscritos == {Str("a"), Str("")}

\* What executeInsert builds from a column list and as many values.
RegistrosEscritos ==
  {[c \in {"id"} |-> n] : n \in IdsEscritos}
  \cup {[c \in {"nome"} |-> t] : t \in NomesEscritos}
  \cup {[c \in {"id", "nome"} |-> IF c = "id" THEN n ELSE t] :
          n \in IdsEscritos, t \in NomesEscritos}

usuariosCom(registros) ==
  [tableStructure(CriarUsuarios.columns, CriarUsuarios.tableConstraints)
     EXCEPT !.registros = [i \in 1..Len(registros) |->
                             [id |-> i, registro |-> registros[i]]]]

lojaCom(registros) ==
  [d \in DbNames |->
     IF d = "loja"
     THEN [existe |-> TRUE,
           tabelas |-> putTable(NoTables, "usuarios", usuariosCom(registros))]
     ELSE NoFile]

Ordenar(orderByClause) ==
  SelectStatement(Star, FromClause("usuarios", ""), NoNode, <<>>, orderByClause, <<>>)
Agrupar(groupByClause) ==
  SelectStatement(Star, FromClause("usuarios", ""), NoNode, <<>>, <<>>, groupByClause)

\* selecionar * de usuarios agrupar por nome | id | id, nome
GroupByPool ==
  { Agrupar(<<Id("nome")>>),
    Agrupar(<<Id("id")>>),
    Agrupar(<<Id("id"), Id("nome")>>) }

\* selecionar * de usuarios ordenar por id | id desc | nome, id desc | nome desc, id
OrderByPool ==
  { Ordenar(<<OrderByExpression(Id("id"), "ASC")>>),
    Ordenar(<<OrderByExpression(Id("id"), "DESC")>>),
    Ordenar(<<OrderByExpression(Id("nome"), "ASC"), OrderByExpression(Id("id"), "DESC")>>),
    Ordenar(<<OrderByExpression(Id("nome"), "DESC"), OrderByExpression(Id("id"), "ASC")>>) }

InitSelect ==
  /\ \E n \in 0..MaxLinhas :
       \E registros \in [1..n -> RegistrosEscritos] : arquivos = lojaCom(registros)
  /\ currentDatabase = "loja"
  /\ entrada = NoNode
  /\ resultado = Sucesso("", <<>>)
  /\ cenario = 0
  /\ emCurso = <<>>
  /\ LexIdle

ExecuteGroupBy == \E typed \in GroupByPool : Execute(typed)
ExecuteOrderBy == \E typed \in OrderByPool : Execute(typed)

NextSelect ==
  \/ ExecuteGroupBy
  \/ ExecuteOrderBy

SpecSelect == InitSelect /\ [][NextSelect]_vars

(***************************************************************************)
(* SELECT of one column with ORDER BY, over the stored table usuarios of   *)
(* loja, read under the alias u.  The records have an id and a nome, or an *)
(* id only.                                                                *)
(***************************************************************************)
\* The stored table holds at most this many records.
MaxProjetadas == 3

RegistrosProjetados ==
  {[c \in {"id", "nome"} |-> IF c = "id" THEN n ELSE t] :
     n \in IdsEscritos, t \in NomesEscritos}
  \cup {[c \in {"id"} |-> Num(1)]}

\* selecionar <coluna> de usuarios u ordenar por <termo> <direcao>
ProjetarEOrdenar(coluna, termo, direcao) ==
  SelectStatement(<<ColumnExpression(Id(coluna), "")>>, FromClause("usuarios", "u"), NoNode,
                  <<>>, <<OrderByExpression(termo, direcao)>>, <<>>)
ProjecaoPool ==
  {ProjetarEOrdenar(coluna, termo, direcao) :
     coluna \in {"id", "nome"},
     termo \in {Id("id"), Id("nome"), QId("u", "id"), QId("u", "nome")},
     direcao \in {"ASC", "DESC"}}

InitProjecao ==
  /\ \E n \in 0..MaxProjetadas :
       \E registros \in [1..n -> RegistrosProjetados] : arquivos = lojaCom(registros)
  /\ currentDatabase = "loja"
  /\ entrada = NoNode
  /\ resultado = Sucesso("", <<>>)
  /\ cenario = 0
  /\ emCurso = <<>>
  /\ LexIdle

ExecuteProjecao == \E typed \in ProjecaoPool : Execute(typed)

NextProjecao == ExecuteProjecao

SpecProjecao == InitProjecao /\ [][NextProjecao]_vars




(***************************************************************************)
(* The lexer (src/parser/lexer.js), read word by word: getNextToken skips  *)
(* the white space, reads one word, number or symbol and emits its token.  *)
(* A token is [type, value].  tokens is what tokenize has pushed so far,   *)
(* tokenHistory the lexer's own field.                                     *)
(***************************************************************************)
MaxGramatical == 15
MaxLivre == 5
HistoryLimit == 10
RecentCount == 3

Token(type, value) == [type |-> type, value |-> value]

\* A slice one token short.
getRecentTokensCurto(history, count) ==
  SubSeq(history, IF Len(history) > count - 1 THEN Len(history) - count + 2 ELSE 1,
         Len(history))

\* this.tokenHistory.slice(-count)
getRecentTokens(history, count) ==
  SubSeq(history, IF Len(history) > count THEN Len(history) - count + 1 ELSE 1, Len(history))

\* The rule of detectContextualEm on the tokens it looks at.
contextualEm(previousTokens) ==
  IF \E i \in 1..Len(previousTokens) : previousTokens[i].type = "INSERT" THEN "INTO"
  ELSE IF \E i \in 1..Len(previousTokens) : previousTokens[i].type = "JOIN" THEN "ON"
  ELSE "INTO"

detectContextualEm(history) == contextualEm(getRecentTokens(history, RecentCount))

\* push, then shift once the history is longer than 10.
pushed(history) == IF Len(history) > HistoryLimit THEN Tail(history) ELSE history
addToHistory(history, token) == pushed(Append(history, token))

\* this.keywords[identifier] for the words of the model ("" when it has none);
\* the entry of 'em' is a function, called with the history as it is.
keywords(identifier, history) ==
  CASE identifier = "selecionar" -> "SELECT"
    [] identifier = "de" -> "FROM"
    [] identifier = "onde" -> "WHERE"
    [] identifier = "juntar" -> "JOIN"
    [] identifier = "esquerda" -> "LEFT"
    [] identifier = "em" -> detectContextualEm(history)
    [] identifier = "inserir" -> "INSERT"
    [] identifier = "valores" -> "VALUES"
    [] identifier = "e" -> "AND"
    [] identifier = "ou" -> "OR"
    [] identifier = "ordenar" -> "ORDER"
    [] identifier = "por" -> "BY"
    [] identifier = "agrupar" -> "GROUP"
    [] identifier = "atualizar" -> "UPDATE"
    [] identifier = "definir" -> "SET"
    [] identifier = "remover" -> "DELETE"
    [] identifier = "criar" -> "CREATE"
    [] identifier = "tabela" -> "TABLE"
    [] identifier = "banco" -> "DATABASE"
    [] identifier = "usar" -> "USE"
    [] identifier = "primaria" -> "PRIMARY"
    [] identifier = "chave" -> "KEY"
    [] identifier = "unico" -> "UNIQUE"
    [] OTHER -> ""

\* The type getNextToken gives the word it read.
tokenType(word, history) ==
  IF word = "1" THEN "NUMBER"
  ELSE IF word \in {"=", "<", ",", ".", ":", ";", "(", ")", "*"} THEN word
  ELSE IF keywords(word, history) # "" THEN keywords(word, history)
  ELSE "IDENTIFIER"

(***************************************************************************)
(* The inputs of the lexer.  A grammatical input is a sequence of INSERT   *)
(* and SELECT statements as Parser takes them (src/parser/parser.js): an   *)
(* optional ; between statements, a table with an optional alias, any      *)
(* number of joins "[esquerda] juntar <table> [<alias>] em <id> = <id>",   *)
(* an optional WHERE.  gramatica is the place reached in that grammar;     *)
(* Depois gives the place after a word, "" when the word cannot come.      *)
(***************************************************************************)
Palavras ==
  {"inserir", "em", "valores", "selecionar", "*", "de", "juntar", "esquerda", "onde",
   "t", "1", "(", ")", "=", ";"}
PalavrasLivres == {"inserir", "juntar", "em", "t", ";"}

\* After a complete statement: ;, or the next statement at once.
DepoisDoFim(word) ==
  CASE word = ";" -> "inicio"
    [] word = "inserir" -> "inserir"
    [] word = "selecionar" -> "selecionar"
    [] OTHER -> ""

\* After the FROM clause or a complete join: a join, a WHERE, or the end.
DepoisDaTabela(word) ==
  CASE word = "juntar" -> "juntar"
    [] word = "esquerda" -> "tipo"
    [] word = "onde" -> "onde"
    [] OTHER -> DepoisDoFim(word)

Depois(lugar, word) ==
  CASE lugar = "inicio" ->
         IF word \in {"inserir", "selecionar"} THEN word ELSE ""
    [] lugar = "inserir" -> IF word = "em" THEN "inserir em" ELSE ""
    [] lugar = "inserir em" -> IF word = "t" THEN "inserir tabela" ELSE ""
    [] lugar = "inserir tabela" -> IF word = "valores" THEN "valores" ELSE ""
    [] lugar = "valores" -> IF word = "(" THEN "valores (" ELSE ""
    [] lugar = "valores (" -> IF word = "1" THEN "valor" ELSE ""
    [] lugar = "valor" -> IF word = ")" THEN "fim" ELSE ""
    [] lugar = "fim" -> DepoisDoFim(word)
    [] lugar = "selecionar" -> IF word = "*" THEN "lista" ELSE ""
    [] lugar = "lista" -> IF word = "de" THEN "de" ELSE ""
    [] lugar = "de" -> IF word = "t" THEN "tabela" ELSE ""
    [] lugar = "tabela" -> IF word = "t" THEN "alias" ELSE DepoisDaTabela(word)
    [] lugar = "alias" -> DepoisDaTabela(word)
    [] lugar = "tipo" -> IF word = "juntar" THEN "juntar" ELSE ""
    [] lugar = "juntar" -> IF word = "t" THEN "juntar tabela" ELSE ""
    [] lugar = "juntar tabela" ->
         IF word = "t" THEN "juntar alias" ELSE IF word = "em" THEN "juntar em" ELSE ""
    [] lugar = "juntar alias" -> IF word = "em" THEN "juntar em" ELSE ""
    [] lugar = "juntar em" -> IF word = "t" THEN "em esquerda" ELSE ""
    [] lugar = "em esquerda" -> IF word = "=" THEN "em =" ELSE ""
    [] lugar = "em =" -> IF word = "t" THEN "alias" ELSE ""
    [] lugar = "onde" -> IF word = "t" THEN "onde esquerda" ELSE ""
    [] lugar = "onde esquerda" -> IF word = "=" THEN "onde =" ELSE ""
    [] lugar = "onde =" -> IF word = "1" THEN "fim" ELSE ""
    [] OTHER -> ""

LexInit ==
  /\ lexModo \in {"gramatical", "livre"}
  /\ gramatica = "inicio"
  /\ tokens = <<>>
  /\ tokenHistory = <<>>
  /\ parsed = NotParsed

\* getNextToken on the next word of the input, and tokenize's push.
getNextToken(word) ==
  /\ tokens' = Append(tokens, Token(tokenType(word, tokenHistory), word))
  /\ tokenHistory' = addToHistory(tokenHistory, Token(tokenType(word, tokenHistory), word))

\* The next word of a grammatical input.
LerGramatical ==
  /\ lexModo = "gramatical"
  /\ Len(tokens) < MaxGramatical
  /\ \E word \in Palavras :
       /\ Depois(gramatica, word) # ""
       /\ gramatica' = Depois(gramatica, word)
       /\ getNextToken(word)
  /\ UNCHANGED <<lexModo, parsed, execVars>>

\* The next word of any input.
LerLivre ==
  /\ lexModo = "livre"
  /\ Len(tokens) < MaxLivre
  /\ \E word \in PalavrasLivres : getNextToken(word)
  /\ UNCHANGED <<lexModo, gramatica, parsed, execVars>>

NextLex == LerGramatical \/ LerLivre

\* A lexer constructed on an input, beside an executor that has run nothing.
InitLex == ExecInit /\ LexInit

SpecLex == InitLex /\ [][NextLex]_vars

(***************************************************************************)
(* The lexer read character by character: tokenize on a text, which is a   *)
(* sequence of characters.  A scan yields [err, message, token, pos,       *)
(* history]; pos is this.position + 1.  The texts of the model hold no     *)
(* '.', so readNumber's fraction is never read.                            *)
(***************************************************************************)
\* A text has at most this many characters.
MaxTexto == 4
Alfabeto == {"a", "A", "1", " ", "\"", "'", "\\", "=", "!", "#"}
Entradas == UNION {[1..n -> Alfabeto] : n \in 0..MaxTexto}

Digitos == {"0", "1", "2", "3", "4", "5", "6", "7", "8", "9"}
\* /[a-zA-Z_]/ on a lower-cased text
Letras ==
  {"a", "b", "c", "d", "e", "f", "g", "h", "i", "j", "k", "l", "m", "n", "o", "p", "q",
   "r", "s", "t", "u", "v", "w", "x", "y", "z", "_"}
Brancos == {" ", "\t", "\n", "\r"}
singleCharTokens == {"=", "<", ">", ",", ".", ":", ";", "(", ")", "*"}

\* input.toLowerCase()
lowerCase(input) == [i \in 1..Len(input) |-> IF input[i] = "A" THEN "a" ELSE input[i]]

Scanned(token, pos, history) ==
  [err |-> FALSE, message |-> "", token |-> token, pos |-> pos, history |-> history]
\* this.error(message)
LexicalError(message, pos) ==
  [err |-> TRUE, message |-> message, token |-> Token("", ""), pos |-> pos, history |-> <<>>]

digitValue(c) ==
  CASE c = "0" -> 0 [] c = "1" -> 1 [] c = "2" -> 2 [] c = "3" -> 3 [] c = "4" -> 4
    [] c = "5" -> 5 [] c = "6" -> 6 [] c = "7" -> 7 [] c = "8" -> 8 [] c = "9" -> 9

\* readNumber from position p: [value, pos], value being parseFloat of the
\* digits read.
RECURSIVE readDigits(_, _, _)
readDigits(input, p, n) ==
  IF p <= Len(input) /\ input[p] \in Digitos
  THEN readDigits(input, p + 1, n * 10 + digitValue(input[p]))
  ELSE [value |-> n, pos |-> p]

\* The character an escape sequence stands for.
escaped(c) ==
  CASE c = "n" -> "\n" [] c = "t" -> "\t" [] c = "r" -> "\r" [] OTHER -> c

\* A readString that takes the end of the input for the closing quote.
RECURSIVE readStringFechando(_, _, _, _)
readStringFechando(input, quote, p, result) ==
  IF p > Len(input) THEN [err |-> FALSE, value |-> result, pos |-> p + 1]
  ELSE IF input[p] = quote THEN [err |-> FALSE, value |-> result, pos |-> p + 1]
  ELSE IF input[p] = "\\"
       THEN IF p + 1 > Len(input) THEN readStringFechando(input, quote, p + 1, result)
            ELSE readStringFechando(input, quote, p + 2, result \o escaped(input[p + 1]))
       ELSE readStringFechando(input, quote, p + 1, result \o input[p])

\* readString once the opening quote is passed: [err, value, pos].
RECURSIVE readString(_, _, _, _)
readString(input, quote, p, result) ==
  IF p > Len(input) THEN [err |-> TRUE, value |-> result, pos |-> p]
  ELSE IF input[p] = quote THEN [err |-> FALSE, value |-> result, pos |-> p + 1]
  ELSE IF input[p] = "\\"
       THEN IF p + 1 > Len(input) THEN readString(input, quote, p + 1, result)
            ELSE readString(input, quote, p + 2, result \o escaped(input[p + 1]))
       ELSE readString(input, quote, p + 1, result \o input[p])

\* readIdentifier: [value, pos].
RECURSIVE readIdentifier(_, _, _)
readIdentifier(input, p, result) ==
  IF p <= Len(input) /\ input[p] \in Letras \cup Digitos
  THEN readIdentifier(input, p + 1, result \o input[p])
  ELSE [value |-> result, pos |-> p]

emitted(token, pos, history) == Scanned(token, pos, addToHistory(history, token))
numberToken(read, history) == emitted(Token("NUMBER", read.value), read.pos, history)
stringToken(read, history) ==
  IF read.err THEN LexicalError("String nao fechada", read.pos)
  ELSE emitted(Token("STRING", read.value), read.pos, history)
identifierToken(read, history) ==
  emitted(Token(IF keywords(read.value, history) # "" THEN keywords(read.value, history)
                ELSE "IDENTIFIER",
                read.value),
          read.pos, history)

\* getNextToken with the lexer at position p.
RECURSIVE getNextTokenAt(_, _, _)
getNextTokenAt(input, p, history) ==
  IF p > Len(input) THEN Scanned(Token("EOF", ""), p, history)
  ELSE IF input[p] \in Brancos THEN getNextTokenAt(input, p + 1, history)
  ELSE IF input[p] \in Digitos THEN numberToken(readDigits(input, p, 0), history)
  ELSE IF input[p] \in {"'", "\""}
       THEN stringToken(readString(input, input[p], p + 1, ""), history)
  ELSE IF input[p] \in Letras THEN identifierToken(readIdentifier(input, p, ""), history)
  ELSE IF input[p] \in {"!", "<", ">"} /\ p + 1 <= Len(input) /\ input[p + 1] = "="
       THEN emitted(Token(input[p] \o "=", input[p] \o "="), p + 2, history)
  ELSE IF input[p] \in singleCharTokens
       THEN emitted(Token(input[p], input[p]), p + 1, history)
  ELSE LexicalError("Caractere inesperado", p)

\* tokenize: [err, message, tokens].
RECURSIVE tokenizeFrom(_, _, _, _)
tokenizePush(input, toks, scan) ==
  IF scan.err THEN [err |-> TRUE, message |-> scan.message, tokens |-> <<>>]
  ELSE IF scan.token.type = "EOF"
       THEN [err |-> FALSE, message |-> "", tokens |-> Append(toks, scan.token)]
       ELSE tokenizeFrom(input, scan.pos, Append(toks, scan.token), scan.history)
tokenizeFrom(input, p, toks, history) ==
  tokenizePush(input, toks, getNextTokenAt(input, p, history))
tokenize(input) == tokenizeFrom(lowerCase(input), 1, <<>>, <<>>)

\* new Lexer(entrada) is constructed, tokenize not yet called.
InitTokenize ==
  /\ arquivos = [d \in DbNames |-> NoFile]
  /\ currentDatabase = ""
  /\ entrada \in Entradas
  /\ resultado = Sucesso("", <<>>)
  /\ cenario = 0
  /\ emCurso = <<>>
  /\ lexModo = "texto"
  /\ gramatica = <<>>
  /\ tokens = <<>>
  /\ tokenHistory = <<>>
  /\ parsed = NotParsed

\* What the caller of tokenize gets: the tokens, or the Error thrown
\* (lexModo is then its message).
Tokenized(lexed) ==
  /\ tokens' = lexed.tokens
  /\ lexModo' = IF lexed.err THEN lexed.message ELSE "fim"

Tokenize ==
  /\ lexModo = "texto"
  /\ Tokenized(tokenize(entrada))
  /\ UNCHANGED <<gramatica, tokenHistory, parsed, execVars>>

NextTokenize == Tokenize

SpecTokenize == InitTokenize /\ [][NextTokenize]_vars

(***************************************************************************)
(* The parser (src/parser/parser.js), a recursive descent over the tokens  *)
(* of tokenize, the EOF token last.  pos is this.currentToken + 1.  Every  *)
(* parse function returns [err, message, node, pos]: the node it built and *)
(* the place it stopped at, or the syntax error it threw.  A null clause,  *)
(* alias or column list is NoNode, "" or <<>> as in the statements above.  *)
(***************************************************************************)
Parsed(node, pos) == [err |-> FALSE, message |-> "", node |-> node, pos |-> pos]
\* this.error(message)
SyntaxError(message, pos) == [err |-> TRUE, message |-> message, node |-> NoNode, pos |-> pos]

getCurrentToken(toks, pos) == IF pos > Len(toks) THEN toks[Len(toks)] ELSE toks[pos]
match(toks, pos, types) == getCurrentToken(toks, pos).type \in types
\* consume(expectedType), then F at the token after it.
consume(toks, pos, expectedType, F(_)) ==
  IF match(toks, pos, {expectedType}) THEN F(pos + 1) ELSE SyntaxError("Esperado", pos)
\* What follows a parse function that returned r: its error, or F of r.
Then(r, F(_)) == IF r.err THEN r ELSE F(r)

\* parseFloat of the digits readNumber collected.
readNumber(word) == CASE word = "1" -> 1 [] word = "2" -> 2 [] OTHER -> 0

Comparators == {"=", "!=", "<", ">", "<=", ">=", "LIKE"}

RECURSIVE parseOrExpression(_, _)
RECURSIVE parseAndExpression(_, _)
RECURSIVE parseComparisonExpression(_, _)
RECURSIVE parsePrimaryExpression(_, _)
RECURSIVE orLoop(_, _)
RECURSIVE andLoop(_, _)

parseExpression(toks, pos) == parseOrExpression(toks, pos)

\* left = new BinaryExpression(left, operator, right)
binaryOf(left, operator, r) ==
  Then(r, LAMBDA right : Parsed(BinaryExpression(left, operator, right.node), right.pos))

orLoop(toks, left) ==
  IF ~left.err /\ match(toks, left.pos, {"OR"})
  THEN orLoop(toks, binaryOf(left.node, getCurrentToken(toks, left.pos).value,
                             parseAndExpression(toks, left.pos + 1)))
  ELSE left
parseOrExpression(toks, pos) == orLoop(toks, parseAndExpression(toks, pos))

\* A loop that takes OR as it takes AND.
RECURSIVE andLoopComOu(_, _)
andLoopComOu(toks, left) ==
  IF ~left.err /\ match(toks, left.pos, {"AND", "OR"})
  THEN andLoopComOu(toks, binaryOf(left.node, getCurrentToken(toks, left.pos).value,
                                   parseComparisonExpression(toks, left.pos + 1)))
  ELSE left

andLoop(toks, left) ==
  IF ~left.err /\ match(toks, left.pos, {"AND"})
  THEN andLoop(toks, binaryOf(left.node, getCurrentToken(toks, left.pos).value,
                              parseComparisonExpression(toks, left.pos + 1)))
  ELSE left
parseAndExpression(toks, pos) == andLoop(toks, parseComparisonExpression(toks, pos))

comparisonRest(toks, left) ==
  IF ~left.err /\ match(toks, left.pos, Comparators)
  THEN binaryOf(left.node, getCurrentToken(toks, left.pos).value,
                parsePrimaryExpression(toks, left.pos + 1))
  ELSE left
parseComparisonExpression(toks, pos) == comparisonRest(toks, parsePrimaryExpression(toks, pos))

parseIdentifierExpression(toks, pos) ==
  consume(toks, pos, "IDENTIFIER", LAMBDA p :
    IF match(toks, p, {"."})
    THEN consume(toks, p + 1, "IDENTIFIER", LAMBDA q :
           Parsed(IdentifierExpression(toks[p + 1].value, toks[pos].value), q))
    ELSE Parsed(IdentifierExpression(toks[pos].value, ""), p))

parsePrimaryExpression(toks, pos) ==
  CASE match(toks, pos, {"NUMBER"}) ->
         Parsed(LiteralExpression(Num(readNumber(getCurrentToken(toks, pos).value)), "NUMBER"),
                pos + 1)
    [] match(toks, pos, {"STRING"}) ->
         Parsed(LiteralExpression(Str(getCurrentToken(toks, pos).value), "STRING"), pos + 1)
    [] match(toks, pos, {"IDENTIFIER"}) -> parseIdentifierExpression(toks, pos)
    [] match(toks, pos, {"("}) ->
         Then(parseExpression(toks, pos + 1), LAMBDA expression :
           consume(toks, expression.pos, ")", LAMBDA p : Parsed(expression.node, p)))
    [] OTHER -> SyntaxError("Expressao inesperada", pos)

(* SELECT *)
RECURSIVE selectListLoop(_, _, _)
RECURSIVE joinLoop(_, _, _)
RECURSIVE expressionListLoop(_, _, _)
RECURSIVE orderByLoop(_, _, _)

\* The check "tabela.*" of parseSelectList, made after the * at pos is
\* consumed: one token, tokens[currentToken - 2], is asked to be both an
\* IDENTIFIER and a DOT.
isTableAsterisk(toks, pos) ==
  /\ pos > 0
  /\ pos - 1 >= 1
  /\ toks[pos - 1].type = "IDENTIFIER"
  /\ toks[pos - 1].type = "."

allColumns(toks, pos) ==
  IF isTableAsterisk(toks, pos)
  THEN ColumnExpression(AllColumnsExpression(toks[pos - 2].value), "")
  ELSE ColumnExpression(AllColumnsExpression(""), "")

\* The optional alias after an expression or a table name: an IDENTIFIER
\* (which is none of the clause keywords the source excludes besides).
optionalAlias(toks, pos, F(_, _)) ==
  IF match(toks, pos, {"IDENTIFIER"}) THEN F(toks[pos].value, pos + 1) ELSE F("", pos)

\* One entry of the select list, then the comma or the end of the list.
selectListNext(toks, columns, pos) ==
  IF match(toks, pos, {","}) THEN selectListLoop(toks, pos + 1, columns)
  ELSE Parsed(columns, pos)

selectListLoop(toks, pos, columns) ==
  IF match(toks, pos, {"*"})
  THEN selectListNext(toks, Append(columns, allColumns(toks, pos)), pos + 1)
  ELSE Then(parseExpression(toks, pos), LAMBDA expression :
         optionalAlias(toks, expression.pos, LAMBDA alias, p :
           selectListNext(toks, Append(columns, ColumnExpression(expression.node, alias)), p)))

parseSelectList(toks, pos) == selectListLoop(toks, pos, <<>>)

parseFromClause(toks, pos) ==
  consume(toks, pos, "IDENTIFIER", LAMBDA p :
    optionalAlias(toks, p, LAMBDA alias, q : Parsed(FromClause(toks[pos].value, alias), q)))

\* joinType, once the qualifier (if any) is consumed and pos is at 'juntar'.
joinOfType(toks, pos, joinType) ==
  consume(toks, pos, "JOIN", LAMBDA p :
    consume(toks, p, "IDENTIFIER", LAMBDA q :
      optionalAlias(toks, q, LAMBDA alias, r :
        consume(toks, r, "ON", LAMBDA s :
          Then(parseExpression(toks, s), LAMBDA onCondition :
            Parsed(JoinClause(joinType, toks[p].value, onCondition.node, alias),
                   onCondition.pos))))))

parseJoinClause(toks, pos) ==
  IF match(toks, pos, {"INNER", "LEFT", "RIGHT"})
  THEN joinOfType(toks, pos + 1, getCurrentToken(toks, pos).type)
  ELSE joinOfType(toks, pos, "INNER")

joinLoop(toks, pos, joinClauses) ==
  IF match(toks, pos, {"JOIN", "INNER", "LEFT", "RIGHT"})
  THEN Then(parseJoinClause(toks, pos), LAMBDA joinClause :
         joinLoop(toks, joinClause.pos, Append(joinClauses, joinClause.node)))
  ELSE Parsed(joinClauses, pos)

parseWhereClause(toks, pos) ==
  consume(toks, pos, "WHERE", LAMBDA p :
    Then(parseExpression(toks, p), LAMBDA condition :
      Parsed(WhereClause(condition.node), condition.pos)))

\* expressions.push(this.parseExpression()) while a comma follows.
expressionListLoop(toks, pos, expressions) ==
  Then(parseExpression(toks, pos), LAMBDA expression :
    IF match(toks, expression.pos, {","})
    THEN expressionListLoop(toks, expression.pos + 1, Append(expressions, expression.node))
    ELSE Parsed(Append(expressions, expression.node), expression.pos))

parseGroupByClause(toks, pos) ==
  consume(toks, pos, "GROUP", LAMBDA p :
    consume(toks, p, "BY", LAMBDA q : expressionListLoop(toks, q, <<>>)))

\* The direction word after an ordering term; F gets the direction and the
\* place after the word when it was consumed.
direction(toks, pos, F(_, _)) ==
  IF match(toks, pos, {"IDENTIFIER"}) /\ toks[pos].value \in {"asc", "crescente"}
  THEN F("ASC", pos + 1)
  ELSE IF match(toks, pos, {"IDENTIFIER"}) /\ toks[pos].value \in {"desc", "decrescente"}
  THEN F("DESC", pos + 1)
  ELSE F("ASC", pos)

orderByNext(toks, expressions, pos) ==
  IF match(toks, pos, {","}) THEN orderByLoop(toks, pos + 1, expressions)
  ELSE Parsed(expressions, pos)

orderByLoop(toks, pos, expressions) ==
  Then(parseExpression(toks, pos), LAMBDA expression :
    direction(toks, expression.pos, LAMBDA dir, p :
      orderByNext(toks, Append(expressions, OrderByExpression(expression.node, dir)), p)))

parseOrderByClause(toks, pos) ==
  consume(toks, pos, "ORDER", LAMBDA p :
    consume(toks, p, "BY", LAMBDA q : orderByLoop(toks, q, <<>>)))

\* An optional clause: parsed when its keyword is there, null otherwise.
optionalClause(toks, pos, keyword, null, parseClause(_, _)) ==
  IF match(toks, pos, {keyword}) THEN parseClause(toks, pos) ELSE Parsed(null, pos)

parseSelectStatement(toks, pos) ==
  consume(toks, pos, "SELECT", LAMBDA p :
    Then(parseSelectList(toks, p), LAMBDA selectList :
      consume(toks, selectList.pos, "FROM", LAMBDA q :
        Then(parseFromClause(toks, q), LAMBDA fromClause :
          Then(joinLoop(toks, fromClause.pos, <<>>), LAMBDA joinClauses :
            Then(optionalClause(toks, joinClauses.pos, "WHERE", NoNode, parseWhereClause),
                 LAMBDA whereClause :
              Then(optionalClause(toks, whereClause.pos, "GROUP", <<>>, parseGroupByClause),
                   LAMBDA groupByClause :
                Then(optionalClause(toks, groupByClause.pos, "ORDER", <<>>,
                                    parseOrderByClause),
                     LAMBDA orderByClause :
                  Parsed(SelectStatement(selectList.node, fromClause.node, whereClause.node,
                                         joinClauses.node, orderByClause.node,
                                         groupByClause.node),
                         orderByClause.pos)))))))))

(* CREATE *)
RECURSIVE constraintLoop(_, _, _)
RECURSIVE createTableLoop(_, _, _, _)

parseCreateDatabaseStatement(toks, pos) ==
  consume(toks, pos, "DATABASE", LAMBDA p :
    consume(toks, p, "IDENTIFIER", LAMBDA q : Parsed(CreateDatabaseObject(toks[p].value), q)))

\* `${type}(${size})`
sizedType(type, size) == type \o "(" \o size \o ")"

parseColumnType(toks, pos) ==
  consume(toks, pos, "IDENTIFIER", LAMBDA p :
    IF toks[pos].value # "uuid" /\ match(toks, p, {"("})
    THEN consume(toks, p + 1, "NUMBER", LAMBDA q :
           consume(toks, q, ")", LAMBDA r :
             Parsed(sizedType(toks[pos].value, toks[p + 1].value), r)))
    ELSE Parsed(toks[pos].value, p))

\* The constraints of a column, in the order written.
constraintLoop(toks, pos, constraints) ==
  CASE match(toks, pos, {"PRIMARY"}) ->
         consume(toks, pos + 1, "KEY", LAMBDA p :
           constraintLoop(toks, p,
                          Append(constraints, ConstraintDefinition("PRIMARY_KEY", NoNode))))
    [] match(toks, pos, {"UNIQUE"}) ->
         constraintLoop(toks, pos + 1,
                        Append(constraints, ConstraintDefinition("UNIQUE", NoNode)))
    [] match(toks, pos, {"NOT"}) ->
         consume(toks, pos + 1, "NULL", LAMBDA p :
           constraintLoop(toks, p,
                          Append(constraints, ConstraintDefinition("NOT_NULL", NoNode))))
    [] match(toks, pos, {"AUTO"}) ->
         consume(toks, pos + 1, "INCREMENT", LAMBDA p :
           constraintLoop(toks, p,
                          Append(constraints, ConstraintDefinition("AUTO_INCREMENT", NoNode))))
    [] match(toks, pos, {"DEFAULT"}) ->
         Then(parseExpression(toks, pos + 1), LAMBDA defaultValue :
           constraintLoop(toks, defaultValue.pos,
                          Append(constraints,
                                 ConstraintDefinition("DEFAULT", [value |-> defaultValue.node]))))
    [] OTHER -> Parsed(constraints, pos)

parseColumnDefinition(toks, pos) ==
  consume(toks, pos, "IDENTIFIER", LAMBDA p :
    consume(toks, p, ":", LAMBDA q :
      Then(parseColumnType(toks, q), LAMBDA columnType :
        Then(constraintLoop(toks, columnType.pos, <<>>), LAMBDA constraints :
          Parsed(ColumnDefinition(toks[pos].value, columnType.node, constraints.node),
                 constraints.pos)))))

\* "( column )" after the words of a table constraint; F gets the place after.
constraintColumn(toks, pos, F(_)) ==
  consume(toks, pos, "(", LAMBDA p :
    consume(toks, p, "IDENTIFIER", LAMBDA q : consume(toks, q, ")", F)))

parseTableConstraint(toks, pos) ==
  CASE match(toks, pos, {"PRIMARY"}) ->
         consume(toks, pos + 1, "KEY", LAMBDA p :
           constraintColumn(toks, p, LAMBDA q :
             Parsed(TableConstraint("PRIMARY_KEY", toks[p + 1].value, "", ""), q)))
    [] match(toks, pos, {"FOREIGN"}) ->
         consume(toks, pos + 1, "KEY", LAMBDA p :
           constraintColumn(toks, p, LAMBDA q :
             consume(toks, q, "REFERENCES", LAMBDA r :
               consume(toks, r, "IDENTIFIER", LAMBDA s :
                 constraintColumn(toks, s, LAMBDA u :
                   Parsed(TableConstraint("FOREIGN_KEY", toks[p + 1].value, toks[r].value,
                                          toks[s + 1].value), u))))))
    [] match(toks, pos, {"UNIQUE"}) ->
         constraintColumn(toks, pos + 1, LAMBDA q :
           Parsed(TableConstraint("UNIQUE", toks[pos + 2].value, "", ""), q))
    [] OTHER -> SyntaxError("Constraint de tabela nao reconhecida", pos)

\* One entry of CREATE TABLE's list is in; the comma or the closing paren.
createTableNext(toks, tableName, lists, pos) ==
  IF match(toks, pos, {","}) THEN createTableLoop(toks, pos + 1, tableName, lists)
  ELSE consume(toks, pos, ")", LAMBDA p :
         Parsed(CreateTableStatement(tableName, lists.columns, lists.tableConstraints), p))

createTableLoop(toks, pos, tableName, lists) ==
  IF match(toks, pos, {"PRIMARY", "FOREIGN", "UNIQUE"})
  THEN Then(parseTableConstraint(toks, pos), LAMBDA constraint :
         createTableNext(toks, tableName,
                         [lists EXCEPT !.tableConstraints = Append(@, constraint.node)],
                         constraint.pos))
  ELSE Then(parseColumnDefinition(toks, pos), LAMBDA column :
         createTableNext(toks, tableName,
                         [lists EXCEPT !.columns = Append(@, column.node)], column.pos))

parseCreateTableStatement(toks, pos) ==
  consume(toks, pos, "TABLE", LAMBDA p :
    consume(toks, p, "IDENTIFIER", LAMBDA q :
      consume(toks, q, "(", LAMBDA r :
        createTableLoop(toks, r, toks[p].value, [columns |-> <<>>, tableConstraints |-> <<>>]))))

parseCreateStatement(toks, pos) ==
  consume(toks, pos, "CREATE", LAMBDA p :
    CASE match(toks, p, {"DATABASE"}) -> parseCreateDatabaseStatement(toks, p)
      [] match(toks, p, {"TABLE"}) -> parseCreateTableStatement(toks, p)
      [] OTHER -> SyntaxError("Esperado banco ou tabela apos criar", p))

(* INSERT, UPDATE, DELETE *)
RECURSIVE columnListLoop(_, _, _)
RECURSIVE assignmentLoop(_, _, _)

\* columns.push(this.consume(IDENTIFIER).value) while a comma follows.
columnListLoop(toks, pos, columns) ==
  consume(toks, pos, "IDENTIFIER", LAMBDA p :
    IF match(toks, p, {","}) THEN columnListLoop(toks, p + 1, Append(columns, toks[pos].value))
    ELSE Parsed(Append(columns, toks[pos].value), p))

\* The optional "( columns )" of INSERT.
insertColumnList(toks, pos) ==
  IF match(toks, pos, {"("})
  THEN Then(columnListLoop(toks, pos + 1, <<>>), LAMBDA columns :
         consume(toks, columns.pos, ")", LAMBDA p : Parsed(columns.node, p)))
  ELSE Parsed(<<>>, pos)

parseInsertStatement(toks, pos) ==
  consume(toks, pos, "INSERT", LAMBDA p :
    consume(toks, p, "INTO", LAMBDA q :
      consume(toks, q, "IDENTIFIER", LAMBDA r :
        Then(insertColumnList(toks, r), LAMBDA columns :
          consume(toks, columns.pos, "VALUES", LAMBDA s :
            consume(toks, s, "(", LAMBDA u :
              Then(expressionListLoop(toks, u, <<>>), LAMBDA values :
                consume(toks, values.pos, ")", LAMBDA v :
                  Parsed(InsertStatement(toks[q].value, columns.node, values.node), v))))))))) 

assignmentLoop(toks, pos, assignments) ==
  consume(toks, pos, "IDENTIFIER", LAMBDA p :
    consume(toks, p, "=", LAMBDA q :
      Then(parseExpression(toks, q), LAMBDA value :
        IF match(toks, value.pos, {","})
        THEN assignmentLoop(toks, value.pos + 1,
                            Append(assignments, Set(toks[pos].value, value.node)))
        ELSE Parsed(Append(assignments, Set(toks[pos].value, value.node)), value.pos))))

parseUpdateStatement(toks, pos) ==
  consume(toks, pos, "UPDATE", LAMBDA p :
    consume(toks, p, "IDENTIFIER", LAMBDA q :
      consume(toks, q, "SET", LAMBDA r :
        Then(assignmentLoop(toks, r, <<>>), LAMBDA assignments :
          Then(optionalClause(toks, assignments.pos, "WHERE", NoNode, parseWhereClause),
               LAMBDA whereClause :
            Parsed(UpdateStatement(toks[p].value, assignments.node, whereClause.node),
                   whereClause.pos))))))

parseDeleteStatement(toks, pos) ==
  consume(toks, pos, "DELETE", LAMBDA p :
    consume(toks, p, "FROM", LAMBDA q :
      consume(toks, q, "IDENTIFIER", LAMBDA r :
        Then(optionalClause(toks, r, "WHERE", NoNode, parseWhereClause), LAMBDA whereClause :
          Parsed(DeleteStatement(toks[q].value, whereClause.node), whereClause.pos)))))

(* The top level *)
RECURSIVE parseLoop(_, _, _)

parseStatement(toks, pos) ==
  CASE match(toks, pos, {"SELECT"}) -> parseSelectStatement(toks, pos)
    [] match(toks, pos, {"CREATE"}) -> parseCreateStatement(toks, pos)
    [] match(toks, pos, {"INSERT"}) -> parseInsertStatement(toks, pos)
    [] match(toks, pos, {"UPDATE"}) -> parseUpdateStatement(toks, pos)
    [] match(toks, pos, {"DELETE"}) -> parseDeleteStatement(toks, pos)
    [] OTHER -> SyntaxError("Comando nao reconhecido", pos)

\* Past the optional semicolon after a statement.
afterStatement(toks, pos) == IF match(toks, pos, {";"}) THEN pos + 1 ELSE pos

\* A parse that returns after its first statement.
parseLoopUmaVez(toks, pos, statements) ==
  IF match(toks, pos, {"EOF"})
  THEN Parsed(StatementArray(statements), pos)
  ELSE Then(parseStatement(toks, pos), LAMBDA statement :
         Parsed(statement.node, afterStatement(toks, statement.pos)))

parseLoop(toks, pos, statements) ==
  IF match(toks, pos, {"EOF"})
  THEN Parsed(IF Len(statements) = 1 THEN statements[1] ELSE StatementArray(statements), pos)
  ELSE Then(parseStatement(toks, pos), LAMBDA statement :
         parseLoop(toks, afterStatement(toks, statement.pos),
                   Append(statements, statement.node)))

\* new Parser(tokens).parse()
ParserParse(toks) == parseLoop(toks, 1, <<>>)

(***************************************************************************)
(* The inputs of the parser.  lexModo says how the input is written:       *)
(*   "sentenca"   statements of the dialect, word by word: each production *)
(*                of parser.js, the entries * and tabela.* of the select   *)
(*                list, and any identifier after an ordering term;         *)
(*   "expressao"  selecionar * de t onde, then any words of expressions;   *)
(*   "curto"      any few words.                                           *)
(* gramatica is the place reached in a sentenca, DepoisNaSentenca the      *)
(* place after a word ("" when the word cannot come), and Final says that  *)
(* the words so far are complete statements.                               *)
(***************************************************************************)
MaxSentenca == 10
MaxExpressao == 5
MaxCurto == 2

Comandos == {"criar", "inserir", "atualizar", "remover", "selecionar"}
Operandos == {"t", "1"}
PalavrasDaSentenca ==
  Comandos \cup Operandos \cup
  {"banco", "tabela", "em", "valores", "definir", "de", "onde", "juntar", "esquerda",
   "agrupar", "ordenar", "por", "desc", "foo", "primaria", "chave", "unico",
   "(", ")", "=", ",", ".", ":", ";", "*"}
PalavrasDaExpressao == {"t", "1", "<", "e", "ou", "(", ")"}
PalavrasCurtas == PalavrasDaSentenca \cup PalavrasDaExpressao \cup {"usar"}
Prefixo == <<"selecionar", "*", "de", "t", "onde">>

\* The places where an expression starts.
Contextos ==
  {"lista", "em", "onde", "agrupar por", "ordenar por", "valor", "atribuir", "filtro"}

\* After a complete statement: the optional semicolon.
DepoisDoComando(word) == IF word = ";" THEN "ponto" ELSE ""

\* After the WHERE clause of a SELECT.
DepoisDoOnde(word) ==
  CASE word = "agrupar" -> "agrupar"
    [] word = "ordenar" -> "ordenar"
    [] OTHER -> DepoisDoComando(word)

\* After the FROM clause or a complete join.
DepoisDoFrom(word) ==
  CASE word = "juntar" -> "juntar"
    [] word = "esquerda" -> "tipo"
    [] word = "onde" -> "onde"
    [] OTHER -> DepoisDoOnde(word)

\* After the type of a column and after each of its constraints.
DepoisDoTipo(word) ==
  CASE word = "primaria" -> "col primaria"
    [] word = "unico" -> "col constr"
    [] word = "," -> "ct ("
    [] word = ")" -> "fim"
    [] OTHER -> ""

\* After a complete expression that started at the place contexto.
DepoisDaExpressao(contexto, word) ==
  CASE contexto = "lista" ->
         (CASE word = "t" -> "lista item" [] word = "," -> "lista"
            [] word = "de" -> "de" [] OTHER -> "")
    [] contexto = "em" -> DepoisDoFrom(word)
    [] contexto = "onde" -> DepoisDoOnde(word)
    [] contexto = "agrupar por" ->
         (CASE word = "," -> "agrupar por" [] word = "ordenar" -> "ordenar"
            [] OTHER -> DepoisDoComando(word))
    [] contexto = "ordenar por" ->
         (CASE word \in {"desc", "foo"} -> "direcao" [] word = "," -> "ordenar por"
            [] OTHER -> DepoisDoComando(word))
    [] contexto = "valor" ->
         (CASE word = "," -> "valor" [] word = ")" -> "fim" [] OTHER -> "")
    [] contexto = "atribuir" ->
         (CASE word = "," -> "definir" [] word = "onde" -> "filtro"
            [] OTHER -> DepoisDoComando(word))
    [] OTHER -> DepoisDoComando(word)

\* The places inside an expression: after its first operand (" a" an
\* identifier, " n" a number), after its comparator (" ="), after its second
\* operand (" ab"); and the place where the expression started.
Fases == {" a", " n", " =", " ab"}
Lugares(fase) == {contexto \o fase : contexto \in Contextos}
Contexto(lugar) ==
  CHOOSE contexto \in Contextos : \E fase \in Fases : lugar = contexto \o fase

\* The words so far are complete statements.
Final(lugar) ==
  \/ lugar \in {"fim", "ponto", "tabela", "alias", "direcao", "remover tabela"}
  \/ \E contexto \in Contextos \ {"lista", "valor"} :
       lugar \in {contexto \o " a", contexto \o " n", contexto \o " ab"}

\* A place with one word to come.
Unico(word, esperada, destino) ==
  IF word = esperada THEN destino ELSE ""

DepoisNaSentenca(lugar, word) ==
  CASE lugar \in {"inicio", "ponto"} ->
         IF word = "selecionar" THEN "lista" ELSE IF word \in Comandos THEN word ELSE ""
    [] lugar \in Contextos ->
         (CASE word = "t" -> lugar \o " a" [] word = "1" -> lugar \o " n"
            [] word = "*" /\ lugar = "lista" -> "lista item" [] OTHER -> "")
    [] lugar \in Lugares(" a") \cup Lugares(" n") ->
         (CASE word = "=" -> Contexto(lugar) \o " ="
            [] word = "." /\ lugar = "lista a" -> "lista ."
            [] OTHER -> DepoisDaExpressao(Contexto(lugar), word))
    [] lugar \in Lugares(" =") ->
         IF word \in Operandos THEN Contexto(lugar) \o " ab" ELSE ""
    [] lugar \in Lugares(" ab") -> DepoisDaExpressao(Contexto(lugar), word)
    [] lugar = "criar" ->
         (CASE word = "banco" -> "criar banco" [] word = "tabela" -> "criar tabela"
            [] OTHER -> "")
    [] lugar = "criar banco" -> Unico(word, "t", "fim")
    [] lugar = "criar tabela" -> Unico(word, "t", "ct nome")
    [] lugar = "ct nome" -> Unico(word, "(", "ct (")
    [] lugar = "ct (" ->
         (CASE word = "t" -> "col nome" [] word = "unico" -> "tc unico"
            [] word = "primaria" -> "tc primaria" [] OTHER -> "")
    [] lugar = "col nome" -> Unico(word, ":", "col :")
    [] lugar = "col :" -> Unico(word, "t", "col tipo")
    [] lugar = "col tipo" -> IF word = "(" THEN "tipo (" ELSE DepoisDoTipo(word)
    [] lugar = "tipo (" -> Unico(word, "1", "tipo n")
    [] lugar = "tipo n" -> Unico(word, ")", "col constr")
    [] lugar = "col constr" -> DepoisDoTipo(word)
    [] lugar = "col primaria" -> Unico(word, "chave", "col constr")
    [] lugar = "tc primaria" -> Unico(word, "chave", "tc unico")
    [] lugar = "tc unico" -> Unico(word, "(", "tc (")
    [] lugar = "tc (" -> Unico(word, "t", "tc col")
    [] lugar = "tc col" -> Unico(word, ")", "ct entrada")
    [] lugar = "ct entrada" ->
         (CASE word = "," -> "ct (" [] word = ")" -> "fim" [] OTHER -> "")
    [] lugar = "inserir" -> Unico(word, "em", "inserir em")
    [] lugar = "inserir em" -> Unico(word, "t", "inserir tabela")
    [] lugar = "inserir tabela" ->
         (CASE word = "(" -> "colunas" [] word = "valores" -> "valores" [] OTHER -> "")
    [] lugar = "colunas" -> Unico(word, "t", "coluna")
    [] lugar = "coluna" ->
         (CASE word = "," -> "colunas" [] word = ")" -> "colunas )" [] OTHER -> "")
    [] lugar = "colunas )" -> Unico(word, "valores", "valores")
    [] lugar = "valores" -> Unico(word, "(", "valor")
    [] lugar = "atualizar" -> Unico(word, "t", "atualizar tabela")
    [] lugar = "atualizar tabela" -> Unico(word, "definir", "definir")
    [] lugar = "definir" -> Unico(word, "t", "definir coluna")
    [] lugar = "definir coluna" -> Unico(word, "=", "atribuir")
    [] lugar = "remover" -> Unico(word, "de", "remover de")
    [] lugar = "remover de" -> Unico(word, "t", "remover tabela")
    [] lugar = "remover tabela" ->
         IF word = "onde" THEN "filtro" ELSE DepoisDoComando(word)
    [] lugar = "lista ." -> Unico(word, "*", "lista item")
    [] lugar = "lista item" ->
         (CASE word = "," -> "lista" [] word = "de" -> "de" [] OTHER -> "")
    [] lugar = "de" -> Unico(word, "t", "tabela")
    [] lugar = "tabela" -> IF word = "t" THEN "alias" ELSE DepoisDoFrom(word)
    [] lugar = "alias" -> DepoisDoFrom(word)
    [] lugar = "tipo" -> Unico(word, "juntar", "juntar")
    [] lugar = "juntar" -> Unico(word, "t", "juntar tabela")
    [] lugar = "juntar tabela" ->
         (CASE word = "t" -> "juntar alias" [] word = "em" -> "em" [] OTHER -> "")
    [] lugar = "juntar alias" -> Unico(word, "em", "em")
    [] lugar = "agrupar" -> Unico(word, "por", "agrupar por")
    [] lugar = "ordenar" -> Unico(word, "por", "ordenar por")
    [] lugar = "direcao" ->
         IF word = "," THEN "ordenar por" ELSE DepoisDoComando(word)
    [] lugar = "fim" -> DepoisDoComando(word)
    [] OTHER -> ""

\* A lexer constructed on an input that is to be parsed.
ParseInit ==
  /\ lexModo \in {"sentenca", "expressao", "curto"}
  /\ gramatica = "inicio"
  /\ tokens = <<>>
  /\ tokenHistory = <<>>
  /\ parsed = NotParsed

\* getNextToken on the next word of a sentenca.
EscreverSentenca ==
  /\ lexModo = "sentenca"
  /\ parsed = NotParsed
  /\ Len(tokens) < MaxSentenca
  /\ \E word \in PalavrasDaSentenca :
       /\ DepoisNaSentenca(gramatica, word) # ""
       /\ gramatica' = DepoisNaSentenca(gramatica, word)
       /\ getNextToken(word)
  /\ UNCHANGED <<lexModo, parsed, execVars>>

\* getNextToken on the next word of an expressao.
EscreverExpressao ==
  /\ lexModo = "expressao"
  /\ parsed = NotParsed
  /\ Len(tokens) < Len(Prefixo) + MaxExpressao
  /\ \E word \in PalavrasDaExpressao \cup {Prefixo[i] : i \in 1..Len(Prefixo)} :
       /\ IF Len(tokens) < Len(Prefixo) THEN word = Prefixo[Len(tokens) + 1]
          ELSE word \in PalavrasDaExpressao
       /\ getNextToken(word)
  /\ UNCHANGED <<lexModo, gramatica, parsed, execVars>>

\* getNextToken on the next of a few words.
EscreverCurto ==
  /\ lexModo = "curto"
  /\ parsed = NotParsed
  /\ Len(tokens) < MaxCurto
  /\ \E word \in PalavrasCurtas : getNextToken(word)
  /\ UNCHANGED <<lexModo, gramatica, parsed, execVars>>

\* The input ends: getNextToken returns EOF, tokenize pushes it and returns,
\* and processSQLCommand parses the tokens.
Parse ==
  /\ lexModo \in {"sentenca", "expressao", "curto"}
  /\ parsed = NotParsed
  /\ tokens' = Append(tokens, Token("EOF", ""))
  /\ parsed' = ParserParse(Append(tokens, Token("EOF", "")))
  /\ UNCHANGED <<lexModo, gramatica, tokenHistory, execVars>>

NextParse == EscreverSentenca \/ EscreverExpressao \/ EscreverCurto \/ Parse

InitParse == ExecInit /\ ParseInit

SpecParse == InitParse /\ [][NextParse]_vars

(***************************************************************************)
(* The parser on the shorter statements of the dialect alone.              *)
(***************************************************************************)
\* A statement input has at most this many words.
MaxCursor == 9

InitCursor ==
  /\ ExecInit
  /\ lexModo = "sentenca"
  /\ gramatica = "inicio"
  /\ tokens = <<>>
  /\ tokenHistory = <<>>
  /\ parsed = NotParsed

EscreverPalavra == Len(tokens) < MaxCursor /\ EscreverSentenca

NextCursor == EscreverPalavra \/ Parse

SpecCursor == InitCursor /\ [][NextCursor]_vars

\* The statements that INSERT and DELETE alone make of a store.
NextInsertDelete ==
  \/ ExecuteCreateDatabase
  \/ handleUseDatabase
  \/ ExecuteCreateTable
  \/ ExecuteInsert
  \/ ExecuteDelete

SpecInsertDelete == Init /\ [][NextInsertDelete]_vars


(***************************************************************************)
(* INSERT into a table with a column of each declared type.  The process   *)
(* starts after criar banco loja, usar banco loja and                      *)
(*   criar tabela fichas (id:numero, nome:texto, apelido:texto(50),        *)
(*                        ativo:booleano)                                  *)
(* and takes INSERT statements: a list of distinct columns with up to one  *)
(* value more than columns, or no list with up to as many values as the    *)
(* table has columns; the values are number or text literals (the lexer    *)
(* reads no boolean).                                                      *)
(***************************************************************************)
\* INSERT is offered while fichas holds fewer records than this.
MaxFichas == 2

CriarFichas ==
  CreateTableStatement("fichas",
    <<ColumnDefinition("id", "numero", <<>>), ColumnDefinition("nome", "texto", <<>>),
      ColumnDefinition("apelido", sizedType("texto", "50"), <<>>),
      ColumnDefinition("ativo", "booleano", <<>>)>>, <<>>)

lojaComFichas ==
  [d \in DbNames |->
     IF d = "loja"
     THEN [existe |-> TRUE,
           tabelas |-> putTable(NoTables, "fichas",
                                tableStructure(CriarFichas.columns, <<>>))]
     ELSE NoFile]

ListasDeColunas ==
  { <<"id">>, <<"nome">>, <<"apelido">>, <<"ativo">>,
    <<"id", "nome">>, <<"nome", "id">>, <<"apelido", "ativo">>, <<"id", "extra">> }
ValoresEscritos == {NumLit(1), StrLit("a")}
\* The lists of one to n values.
ListasDeValores(n) == UNION {[1..k -> ValoresEscritos] : k \in 1..n}

InitInsert ==
  /\ arquivos = lojaComFichas
  /\ currentDatabase = "loja"
  /\ entrada = NoNode
  /\ resultado = Sucesso("", <<>>)
  /\ cenario = 0
  /\ emCurso = <<>>
  /\ LexIdle

\* inserir em fichas (<colunas>) valores (<valores>)
InserirComLista ==
  /\ registrosDe(loadTable(arquivos, "loja", "fichas")) < MaxFichas
  /\ \E columns \in ListasDeColunas :
       \E values \in ListasDeValores(Len(columns) + 1) :
         Execute(InsertStatement("fichas", columns, values))
\* inserir em fichas valores (<valores>)
InserirSemLista ==
  /\ registrosDe(loadTable(arquivos, "loja", "fichas")) < MaxFichas
  /\ \E values \in ListasDeValores(Len(CriarFichas.columns)) :
       Execute(InsertStatement("fichas", <<>>, values))

NextInsert ==
  \/ InserirComLista
  \/ InserirSemLista

SpecInsert == InitInsert /\ [][NextInsert]_vars

(***************************************************************************)
(* The constraint validator (src/constraints/validator.js) and             *)
(* StorageManager.insertRecord, which calls it.  A column's constraints    *)
(* are the tokens createTable joined with commas; parseConstraints splits  *)
(* them again.  The caller's record is changed in place by applyAutoValues *)
(* and is what insertRecord stores.                                        *)
(***************************************************************************)
\* constraintString.split(',').filter(c => c.trim())
parseConstraints(constraints) == SelectSeq(constraints, LAMBDA c : c # "")
includes(q, x) == \E i \in 1..Len(q) : q[i] = x

\* The values of the column that are of type number, over all records.
numericValues(tableData, columnName) ==
  {campo(tableData.registros[i].registro, columnName).n :
     i \in {j \in 1..Len(tableData.registros) :
              campo(tableData.registros[j].registro, columnName).k = "number"}}

\* values.sort((a, b) => b - a)[0] + 1, or 1 when no record holds a number.
getNextAutoIncrementValue(tableData, columnName) ==
  IF numericValues(tableData, columnName) = {} THEN Num(1)
  ELSE Num((CHOOSE x \in numericValues(tableData, columnName) :
              \A y \in numericValues(tableData, columnName) : y <= x) + 1)

\* One text stands for the random identifier generateUUID makes.
generateUUID == Str("uuid")

\* The texts a DEFAULT constraint of the model carries after "DEFAULT:".
TextosPadrao == {"1", "a", "true", "[object Object]"}
hasDefault(constraints) == \E t \in TextosPadrao : includes(constraints, "DEFAULT:" \o t)
\* defaultConstraint.split(':')[1]
defaultText(constraints) ==
  CHOOSE t \in TextosPadrao : includes(constraints, "DEFAULT:" \o t)

parseDefaultValue(defaultValue, type) ==
  CASE type = "numero" -> IF defaultValue = "1" THEN Num(1) ELSE NaN
    [] type = "booleano" -> Bool(defaultValue = "true")
    [] OTHER -> Str(defaultValue)

\* The three steps of applyAutoValues for one column, each on the record the
\* step before it left.
autoIncrementStep(record, tableData, coluna) ==
  IF includes(parseConstraints(coluna.constraints), "AUTO_INCREMENT")
     /\ ~Truthy(campo(record, coluna.nome))
  THEN Assign(record, coluna.nome, getNextAutoIncrementValue(tableData, coluna.nome))
  ELSE record

uuidStep(record, coluna) ==
  IF coluna.tipo = "uuid" /\ ~Truthy(campo(record, coluna.nome))
  THEN Assign(record, coluna.nome, generateUUID)
  ELSE record

defaultStep(record, coluna) ==
  IF hasDefault(parseConstraints(coluna.constraints))
     /\ campo(record, coluna.nome) \in {Null, Undefined}
  THEN Assign(record, coluna.nome,
              parseDefaultValue(defaultText(parseConstraints(coluna.constraints)),
                                coluna.tipo))
  ELSE record

\* applyAutoValues from the i-th declared column on: the record it leaves.
RECURSIVE AutoValuesFrom(_, _, _)
AutoValuesFrom(i, record, tableData) ==
  IF i > Len(tableData.colunas) THEN record
  ELSE AutoValuesFrom(i + 1,
                      defaultStep(uuidStep(autoIncrementStep(record, tableData,
                                                             tableData.colunas[i]),
                                           tableData.colunas[i]),
                                  tableData.colunas[i]),
                      tableData)

applyAutoValues(record, tableData) == AutoValuesFrom(1, record, tableData)

\* Object.values(registros).some(record => record[columnName] === value)
checkDuplicateValue(st, databaseName, tableName, columnName, value) ==
  /\ loadTable(st, databaseName, tableName) # NoNode
  /\ \E i \in 1..Len(loadTable(st, databaseName, tableName).registros) :
       campo(loadTable(st, databaseName, tableName).registros[i].registro, columnName) = value

validateForeignKey(st, databaseName, referencedTable, referencedColumn, value) ==
  checkDuplicateValue(st, databaseName, referencedTable, referencedColumn, value)

\* The errors validateInsert pushes for one column, given its value.
columnErrors(st, databaseName, tableName, coluna, constraints, value) ==
  (IF includes(constraints, "NOT_NULL") /\ value \in {Null, Undefined}
   THEN <<"Coluna '" \o coluna.nome \o "' nao pode ser nula">> ELSE <<>>)
  \o (IF ~includes(constraints, "PRIMARY_KEY") THEN <<>>
      ELSE IF value \in {Null, Undefined}
      THEN <<"Chave primaria '" \o coluna.nome \o "' nao pode ser nula">>
      ELSE IF checkDuplicateValue(st, databaseName, tableName, coluna.nome, value)
      THEN <<"Valor duplicado para chave primaria '" \o coluna.nome \o "'">>
      ELSE <<>>)
  \o (IF includes(constraints, "UNIQUE") /\ value \notin {Null, Undefined}
         /\ checkDuplicateValue(st, databaseName, tableName, coluna.nome, value)
      THEN <<"Valor duplicado para coluna unica '" \o coluna.nome \o "'">> ELSE <<>>)

RECURSIVE ColumnErrorsFrom(_, _, _, _, _, _)
ColumnErrorsFrom(i, st, databaseName, tableName, record, tableData) ==
  IF i > Len(tableData.colunas) THEN <<>>
  ELSE columnErrors(st, databaseName, tableName, tableData.colunas[i],
                    parseConstraints(tableData.colunas[i].constraints),
                    campo(record, tableData.colunas[i].nome))
       \o ColumnErrorsFrom(i + 1, st, databaseName, tableName, record, tableData)

\* The error of one table-level constraint, given the value of its column
\* (the model keeps options.referencedTable and options.referencedColumn as
\* fields of the constraint itself).
foreignKeyError(st, databaseName, constraint, value) ==
  IF constraint.type = "FOREIGN_KEY" /\ value \notin {Null, Undefined}
     /\ ~validateForeignKey(st, databaseName, constraint.referencedTable,
                            constraint.referencedColumn, value)
  THEN <<"Chave estrangeira invalida: " \o constraint.columnName>> ELSE <<>>

RECURSIVE ForeignKeyErrorsFrom(_, _, _, _, _)
ForeignKeyErrorsFrom(i, st, databaseName, record, tableData) ==
  IF i > Len(tableData.constraints) THEN <<>>
  ELSE foreignKeyError(st, databaseName, tableData.constraints[i],
                       campo(record, tableData.constraints[i].columnName))
       \o ForeignKeyErrorsFrom(i + 1, st, databaseName, record, tableData)

\* validateInsert after applyAutoValues has changed the record: the errors.
validateInsert(st, databaseName, tableName, record, tableData) ==
  ColumnErrorsFrom(1, st, databaseName, tableName, record, tableData)
  \o ForeignKeyErrorsFrom(1, st, databaseName, record, tableData)

\* errors.join(', ')
RECURSIVE joinErrors(_)
joinErrors(errors) ==
  IF errors = <<>> THEN ""
  ELSE IF Len(errors) = 1 THEN errors[1]
  ELSE errors[1] \o ", " \o joinErrors(Tail(errors))

\* insertRecord once the record carries its generated values.
insertValidated(st, databaseName, tableName, record, tableData) ==
  IF validateInsert(st, databaseName, tableName, record, tableData) # <<>>
  THEN Raise("Violacao de constraints: "
             \o joinErrors(validateInsert(st, databaseName, tableName, record, tableData)),
             st)
  ELSE SaveAndReturn(st, databaseName, tableName,
                     [tableData EXCEPT
                        !.registros = PutRecord(@, Len(tableData.registros) + 1, record)],
                     Sucesso("Registro inserido com sucesso", <<>>))

insertRecordInto(st, databaseName, tableName, record, tableData) ==
  IF tableData = NoNode THEN Raise("Tabela nao encontrada", st)
  ELSE insertValidated(st, databaseName, tableName, applyAutoValues(record, tableData),
                       tableData)

insertRecord(st, databaseName, tableName, record) ==
  insertRecordInto(st, databaseName, tableName, record,
                   loadTable(st, databaseName, tableName))

(***************************************************************************)
(* insertRecord called on the store, between DELETE statements.  Database  *)
(* loja is selected and holds usuarios as CriarUsuarios creates it, whose  *)
(* column id is PRIMARY KEY AUTO INCREMENT.  The records offered have id   *)
(* absent or a number, and nome absent or a text.                          *)
(***************************************************************************)
\* insertRecord is offered while usuarios holds fewer records than this
MaxInseridos == 3
\* and the next auto-increment value of id is at most this.
MaxAuto == 4

RegistrosOferecidos ==
  {NoRecord}
  \cup {[c \in {"id"} |-> n] : n \in {Num(0), Num(1), Num(3)}}
  \cup {[c \in {"nome"} |-> Str("a")]}
  \cup {[c \in {"id", "nome"} |-> IF c = "id" THEN n ELSE Str("a")] :
          n \in {Num(0), Num(1), Num(3)}}

InsertRecordCall(tableName, record) ==
  [node |-> "insertRecord", tableName |-> tableName, record |-> record]

\* remover de usuarios onde id = 1 | 2 | 3 | 4
RemoverPool ==
  {DeleteStatement("usuarios", WhereClause(BinaryExpression(Id("id"), "=", NumLit(n)))) :
     n \in 1..4}

InitValidator ==
  /\ arquivos = lojaCom(<<>>)
  /\ currentDatabase = "loja"
  /\ entrada = NoNode
  /\ resultado = Sucesso("", <<>>)
  /\ cenario = 0
  /\ emCurso = <<>>
  /\ LexIdle

\* What the caller of insertRecord gets: a result, or the Error thrown.
Inserted(tableName, record, r) ==
  /\ arquivos' = r.arquivos
  /\ resultado' = [r.resultado EXCEPT !.lancou = r.throw]
  /\ entrada' = InsertRecordCall(tableName, record)
  /\ UNCHANGED <<currentDatabase, cenario, emCurso, lexVars>>

InsertRecord ==
  /\ registrosDe(loadTable(arquivos, "loja", "usuarios")) < MaxInseridos
  /\ getNextAutoIncrementValue(loadTable(arquivos, "loja", "usuarios"), "id").n <= MaxAuto
  /\ \E record \in RegistrosOferecidos :
       Inserted("usuarios", record, insertRecord(arquivos, "loja", "usuarios", record))

ExecuteRemover == \E typed \in RemoverPool : Execute(typed)

NextValidator ==
  \/ InsertRecord
  \/ ExecuteRemover

SpecValidator == InitValidator /\ [][NextValidator]_vars

(***************************************************************************)
(* insertRecord on a table with constraints of every kind.  The table was  *)
(* made by StorageManager.createTable with its table constraints:          *)
(*   contas (id:numero primaria chave, email:texto unico nao nulo,         *)
(*           dono:numero, codigo:texto,                                    *)
(*           estrangeira chave (dono) referencia usuarios (id),            *)
(*           unico (codigo))                                               *)
(* in database loja, where usuarios is missing or holds the record id 1.   *)
(***************************************************************************)
\* insertRecord is offered while contas holds fewer records than this.
MaxContas == 2

CriarContas ==
  CreateTableStatement("contas",
    <<ColumnDefinition("id", "numero", <<ConstraintDefinition("PRIMARY_KEY", NoNode)>>),
      ColumnDefinition("email", "texto", <<ConstraintDefinition("UNIQUE", NoNode),
                                            ConstraintDefinition("NOT_NULL", NoNode)>>),
      ColumnDefinition("dono", "numero", <<>>),
      ColumnDefinition("codigo", "texto", <<>>)>>,
    <<TableConstraint("FOREIGN_KEY", "dono", "usuarios", "id"),
      TableConstraint("UNIQUE", "codigo", "", "")>>)

\* loja before contas is created: without tables, or with usuarios holding id 1.
LojasAntesDeContas ==
  { createDatabase([d \in DbNames |-> NoFile], "loja").arquivos,
    lojaCom(<<[c \in {"id"} |-> Num(1)]>>) }

\* The records offered: each column absent or one of two values.
ValoresDeContas ==
  [id |-> {Undefined, Num(1), Num(2)},
   email |-> {Undefined, Str("a"), Str("b")},
   dono |-> {Undefined, Num(1), Num(9)},
   codigo |-> {Undefined, Str("a")}]
registroDe(valores) ==
  [c \in {k \in DOMAIN valores : valores[k] # Undefined} |-> valores[c]]
ContasOferecidas ==
  {registroDe(valores) :
     valores \in [id : ValoresDeContas.id, email : ValoresDeContas.email,
                  dono : ValoresDeContas.dono, codigo : ValoresDeContas.codigo]}

InitConstraints ==
  /\ \E st \in LojasAntesDeContas :
       arquivos = createTable(st, "loja", "contas", CriarContas.columns,
                              CriarContas.tableConstraints).arquivos
  /\ currentDatabase = "loja"
  /\ entrada = NoNode
  /\ resultado = Sucesso("", <<>>)
  /\ cenario = 0
  /\ emCurso = <<>>
  /\ LexIdle

InsertConta ==
  /\ registrosDe(loadTable(arquivos, "loja", "contas")) < MaxContas
  /\ \E record \in ContasOferecidas :
       Inserted("contas", record, insertRecord(arquivos, "loja", "contas", record))

NextConstraints == InsertConta

SpecConstraints == InitConstraints /\ [][NextConstraints]_vars

(***************************************************************************)
(* insertRecord on a table whose columns carry DEFAULT constraints:        *)
(*   itens (n0:numero padrao 0, n1:numero padrao 1,                        *)
(*          t0:texto padrao "", ta:texto padrao "a")                       *)
(* in database loja.  The records offered have each column absent, null or *)
(* a value of the column's type.                                           *)
(***************************************************************************)
\* insertRecord is offered while itens holds fewer records than this.
MaxItens == 2

CriarItens ==
  CreateTableStatement("itens",
    <<ColumnDefinition("n0", "numero", <<ConstraintDefinition("DEFAULT", [value |-> NumLit(0)])>>),
      ColumnDefinition("n1", "numero", <<ConstraintDefinition("DEFAULT", [value |-> NumLit(1)])>>),
      ColumnDefinition("t0", "texto", <<ConstraintDefinition("DEFAULT", [value |-> StrLit("")])>>),
      ColumnDefinition("ta", "texto", <<ConstraintDefinition("DEFAULT", [value |-> StrLit("a")])>>)>>,
    <<>>)

ValoresDeItens ==
  [n0 |-> {Undefined, Null, Num(2)},
   n1 |-> {Undefined, Null, Num(0)},
   t0 |-> {Undefined, Null, Str("b")},
   ta |-> {Undefined, Null, Str("")}]
ItensOferecidos ==
  {registroDe(valores) :
     valores \in [n0 : ValoresDeItens.n0, n1 : ValoresDeItens.n1,
                  t0 : ValoresDeItens.t0, ta : ValoresDeItens.ta]}

InitDefault ==
  /\ arquivos = createTable(createDatabase([d \in DbNames |-> NoFile], "loja").arquivos,
                            "loja", "itens", CriarItens.columns,
                            CriarItens.tableConstraints).arquivos
  /\ currentDatabase = "loja"
  /\ entrada = NoNode
  /\ resultado = Sucesso("", <<>>)
  /\ cenario = 0
  /\ emCurso = <<>>
  /\ LexIdle

InsertItem ==
  /\ registrosDe(loadTable(arquivos, "loja", "itens")) < MaxItens
  /\ \E record \in ItensOferecidos :
       Inserted("itens", record, insertRecord(arquivos, "loja", "itens", record))

NextDefault == InsertItem

SpecDefault == InitDefault /\ [][NextDefault]_vars

(***************************************************************************)
(* Calls of QueryExecutor.execute issued without awaiting the one before.  *)
(* executeInsert suspends at each await: in loadTable (the file is read),  *)
(* in saveTable's loadDatabase (the file is read again) and in             *)
(* saveDatabase (the file is written whole).  A call keeps its tableData   *)
(* and its dbData across the awaits; nothing in the executor or in the     *)
(* storage manager makes a second call wait for the first.  loja is        *)
(* selected and holds usuarios and posts, both empty.                      *)
(***************************************************************************)
\* execute is called at most this many times.
MaxChamadas == 2

\* inserir em usuarios (id, nome) valores (n, "a")
\* inserir em posts (id, usuario_id) valores (n, 1)
ChamadasPool ==
  {InsertStatement("usuarios", <<"id", "nome">>, <<NumLit(n), StrLit("a")>>) : n \in 1..2}
  \cup {InsertStatement("posts", <<"id", "usuario_id">>, <<NumLit(n), NumLit(1)>>) : n \in 1..2}

Chamada(ast, pc, tableData, dbData, res) ==
  [ast |-> ast, pc |-> pc, tableData |-> tableData, dbData |-> dbData, resultado |-> res]

lojaComTabelas ==
  createTable(
    createTable(createDatabase([d \in DbNames |-> NoFile], "loja").arquivos,
                "loja", "usuarios", CriarUsuarios.columns, <<>>).arquivos,
    "loja", "posts", CriarPosts.columns, <<>>).arquivos

InitConcurrent ==
  /\ arquivos = lojaComTabelas
  /\ currentDatabase = "loja"
  /\ entrada = NoNode
  /\ resultado = Sucesso("", <<>>)
  /\ cenario = 0
  /\ emCurso = <<>>
  /\ LexIdle

\* execute(ast) runs up to the first await of loadTable and yields.
IssueExecute ==
  /\ Len(emCurso) < MaxChamadas
  /\ \E typed \in ChamadasPool :
       /\ emCurso' = Append(emCurso, Chamada(parse(typed), "loadTable", NoNode, NoNode,
                                             Sucesso("", <<>>)))
       /\ entrada' = typed
  /\ UNCHANGED <<arquivos, currentDatabase, resultado, cenario, lexVars>>

\* Call k has returned res (a failure when it threw).
Returned(k, res) ==
  /\ emCurso' = [emCurso EXCEPT ![k].pc = "fim", ![k].resultado = res]
  /\ resultado' = res

\* loadTable resolves: the file as it is now gives tableData; the record is
\* built and put into tableData, and saveTable is entered.  r is what
\* executeInsert makes of the store read.
Loaded(k, r) ==
  IF r.throw THEN Returned(k, r.resultado)
  ELSE /\ emCurso' = [emCurso EXCEPT
                        ![k].pc = "saveTable",
                        ![k].tableData = loadTable(r.arquivos, currentDatabase,
                                                   emCurso[k].ast.tableName)]
       /\ resultado' = resultado
LoadTableStep ==
  /\ \E k \in 1..Len(emCurso) :
       /\ emCurso[k].pc = "loadTable"
       /\ Loaded(k, executeInsert(emCurso[k].ast, arquivos, currentDatabase))
  /\ UNCHANGED <<arquivos, currentDatabase, entrada, cenario, lexVars>>

\* saveTable's loadDatabase resolves: dbData is the file as it is now, with
\* the call's tableData put in place of the table.
SaveLoaded(k, saved) ==
  IF saved.throw THEN Returned(k, Falha(saved.error))
  ELSE /\ emCurso' = [emCurso EXCEPT ![k].pc = "saveDatabase",
                                     ![k].dbData = saved.arquivos[currentDatabase]]
       /\ resultado' = resultado
SaveTableStep ==
  /\ \E k \in 1..Len(emCurso) :
       /\ emCurso[k].pc = "saveTable"
       /\ SaveLoaded(k, saveTable(arquivos, currentDatabase, emCurso[k].ast.tableName,
                                  emCurso[k].tableData))
  /\ UNCHANGED <<arquivos, currentDatabase, entrada, cenario, lexVars>>

\* saveDatabase writes the call's dbData over the file, and execute returns.
SaveDatabaseStep ==
  /\ \E k \in 1..Len(emCurso) :
       /\ emCurso[k].pc = "saveDatabase"
       /\ arquivos' = [arquivos EXCEPT ![currentDatabase] = emCurso[k].dbData]
       /\ Returned(k, Sucesso("Registro inserido com sucesso", <<>>))
  /\ UNCHANGED <<currentDatabase, entrada, cenario, lexVars>>

NextConcurrent ==
  \/ IssueExecute
  \/ LoadTableStep
  \/ SaveTableStep
  \/ SaveDatabaseStep

SpecConcurrent == InitConcurrent /\ [][NextConcurrent]_vars

(***************************************************************************)
(* What the claims read of a state.                                        *)
(***************************************************************************)
\* The records of a table of loja as stored, none when it does not exist.
registrosDa(st, tableName) ==
  IF loadTable(st, "loja", tableName) = NoNode THEN <<>>
  ELSE loadTable(st, "loja", tableName).registros
idsDa(st, tableName) ==
  [i \in 1..Len(registrosDa(st, tableName)) |->
     campo(registrosDa(st, tableName)[i].registro, "id")]
Range(q) == {q[i] : i \in 1..Len(q)}
BagOf(q) == [x \in Range(q) |-> Cardinality({i \in 1..Len(q) : q[i] = x})]
\* The statement reaches the table it names: loja is selected and holds it.
Alcanca(typed, st, cur) == cur = "loja" /\ loadTable(st, "loja", typed.tableName) # NoNode
\* The value an INSERT with a column list supplies for a column, Undefined if none.
valorDe(typed, column) ==
  IF \E i \in 1..Len(typed.columns) : typed.columns[i] = column /\ i <= Len(typed.values)
  THEN parse(typed).values[CHOOSE i \in 1..Len(typed.columns) : typed.columns[i] = column].value
  ELSE Undefined
\* The statement is typed well enough for the executor to take it: as many
\* values as columns, each of the type its column declares.
BemTipada(typed, st) ==
  LET tableData == loadTable(st, "loja", typed.tableName)
      columns == IF typed.columns # <<>> THEN typed.columns
                 ELSE [i \in 1..Len(tableData.colunas) |-> tableData.colunas[i].nome]
  IN /\ Len(typed.values) = Len(columns)
     /\ \A i \in 1..Len(columns) :
          validateType(typed.values[i].value, columnTypeOf(tableData, columns[i]))

(***************************************************************************)
(* C1.  Through the executor, on usuarios, whose column id is declared     *)
(* PRIMARY KEY AUTO INCREMENT: a successful INSERT that omits id stores 1  *)
(* in it when the table is empty and 2 when the table holds the record     *)
(* with id 1; an INSERT that supplies for id a value a record already has  *)
(* fails and adds no record.                                               *)
(***************************************************************************)
C1_Step ==
  (/\ entrada'.node = "InsertStatement"
   /\ entrada'.tableName = "usuarios"
   /\ Alcanca(entrada', arquivos, currentDatabase)
   /\ entrada'.columns # <<>>)
  => /\ (valorDe(entrada', "id") = Undefined /\ resultado'.sucesso)
          => /\ idsDa(arquivos, "usuarios") = <<>>
                  => idsDa(arquivos', "usuarios") = <<Num(1)>>
             /\ idsDa(arquivos, "usuarios") = <<Num(1)>>
                  => idsDa(arquivos', "usuarios") = <<Num(1), Num(2)>>
     /\ (\E i \in 1..Len(idsDa(arquivos, "usuarios")) :
            StrictEq(idsDa(arquivos, "usuarios")[i], valorDe(entrada', "id")))
          => /\ ~resultado'.sucesso
             /\ registrosDa(arquivos', "usuarios") = registrosDa(arquivos, "usuarios")

C1_AutoIncremento == [][C1_Step]_vars

\* An INSERT that omitted id succeeded and its record holds no id at all.
C1_SemId ==
  /\ entrada.node = "InsertStatement"
  /\ entrada.tableName = "usuarios"
  /\ entrada.columns = <<"nome">>
  /\ resultado.sucesso
  /\ idsDa(arquivos, "usuarios") = <<Undefined>>

(***************************************************************************)
(* C2.  posts is created with FOREIGN KEY (usuario_id) REFERENCES          *)
(* usuarios(id): an INSERT into posts whose usuario_id is the id of no     *)
(* usuarios record fails and leaves posts unchanged; one whose usuario_id  *)
(* is the id of a usuarios record succeeds.                                *)
(***************************************************************************)
C2_Step ==
  (/\ entrada'.node = "InsertStatement"
   /\ entrada'.tableName = "posts"
   /\ Alcanca(entrada', arquivos, currentDatabase)
   /\ BemTipada(entrada', arquivos))
  => IF \E i \in 1..Len(idsDa(arquivos, "usuarios")) :
          LooseEq(idsDa(arquivos, "usuarios")[i], valorDe(entrada', "usuario_id"))
     THEN resultado'.sucesso
     ELSE /\ ~resultado'.sucesso
          /\ registrosDa(arquivos', "posts") = registrosDa(arquivos, "posts")

C2_ChaveEstrangeira == [][C2_Step]_vars

\* posts holds a record whose usuario_id is the id of no usuarios record.
C2_Orfao ==
  /\ entrada.node = "InsertStatement"
  /\ entrada.tableName = "posts"
  /\ resultado.sucesso
  /\ \E i \in 1..Len(registrosDa(arquivos, "posts")) :
       /\ campo(registrosDa(arquivos, "posts")[i].registro, "usuario_id") = Num(999)
       /\ \A j \in 1..Len(idsDa(arquivos, "usuarios")) :
            ~LooseEq(idsDa(arquivos, "usuarios")[j], Num(999))

(***************************************************************************)
(* C3.  After successful INSERT and DELETE statements on a table, a        *)
(* further successful INSERT stores its record under an identifier no      *)
(* record used: the table holds one record more, and every record it held  *)
(* is still there under its identifier with its values.                    *)
(***************************************************************************)
C3_Step ==
  (entrada'.node = "InsertStatement" /\ resultado'.sucesso)
  => LET before == registrosDa(arquivos, entrada'.tableName)
         after == registrosDa(arquivos', entrada'.tableName)
     IN /\ Len(after) = Len(before) + 1
        /\ \A i \in 1..Len(before) : \E j \in 1..Len(after) : after[j] = before[i]
        /\ \E j \in 1..Len(after) : \A i \in 1..Len(before) : after[j].id # before[i].id

C3_IdentificadorNovo == [][C3_Step]_vars

\* A successful INSERT left usuarios with the single key reg_2: the record that
\* was under reg_2 is gone.
C3_Sobrescrito ==
  /\ entrada.node = "InsertStatement"
  /\ entrada.tableName = "usuarios"
  /\ resultado.sucesso
  /\ Len(registrosDa(arquivos, "usuarios")) = 1
  /\ registrosDa(arquivos, "usuarios")[1].id = 2

(***************************************************************************)
(* C4.  In every state that INSERT, UPDATE and DELETE statements reach,    *)
(* the values of usuarios.id, declared PRIMARY KEY, are non-null and       *)
(* pairwise distinct: an INSERT or UPDATE that would store a null or a     *)
(* repeated value is not persisted.                                        *)
(***************************************************************************)
C4_ChavePrimaria ==
  /\ \A i \in 1..Len(idsDa(arquivos, "usuarios")) :
       idsDa(arquivos, "usuarios")[i] \notin {Undefined, Null}
  /\ \A i, j \in 1..Len(idsDa(arquivos, "usuarios")) :
       i # j => idsDa(arquivos, "usuarios")[i] # idsDa(arquivos, "usuarios")[j]

\* An UPDATE succeeded and two records of usuarios hold the same id.
C4_Repetida ==
  /\ entrada.node = "UpdateStatement"
  /\ resultado.sucesso
  /\ idsDa(arquivos, "usuarios") = <<Num(1), Num(1)>>

(***************************************************************************)
(* C5.  A statement on which execute reports failure returns sucesso =     *)
(* false with a message, raises nothing, and leaves the stored database    *)
(* and the selected database as they were, which is all the next statement *)
(* reads.                                                                  *)
(***************************************************************************)
C5_Step ==
  (entrada'.node # "usar banco" /\ ~resultado'.sucesso)
  => /\ ~resultado'.lancou
     /\ resultado'.mensagem # ""
     /\ arquivos' = arquivos
     /\ currentDatabase' = currentDatabase

C5_FalhaIsolada == [][C5_Step]_vars

\* An UPDATE failed on its second assignment, after the first one had changed a
\* record in memory: the stored record still has its old name.
C5_UpdateFalhou ==
  /\ entrada.node = "UpdateStatement"
  /\ Len(entrada.assignments) = 2
  /\ ~resultado.sucesso
  /\ resultado.mensagem = "Erro na execucao: Operador matematico nao suportado"
  /\ \E i \in 1..Len(registrosDa(arquivos, "usuarios")) :
       campo(registrosDa(arquivos, "usuarios")[i].registro, "nome") = Str("a")


(***************************************************************************)
(* C6.  With a WHERE condition c1 e c2 (c1 ou c2) whose c1 and c2 are      *)
(* comparisons, SELECT, UPDATE and DELETE on a table that exists succeed,  *)
(* and select, change or remove exactly the rows on which both comparisons *)
(* hold (at least one holds).                                              *)
(***************************************************************************)
TemLogica(typed) ==
  /\ typed.node \in {"SelectStatement", "UpdateStatement", "DeleteStatement"}
  /\ typed.whereClause # NoNode
  /\ typed.whereClause.condition.node = "BinaryExpression"
  /\ typed.whereClause.condition.operator \in {"e", "ou"}
TabelaDe(typed) ==
  IF typed.node = "SelectStatement" THEN typed.fromClause.tableName ELSE typed.tableName
\* Both comparisons hold on the row, or at least one does.
Vale(condition, row) ==
  IF condition.operator = "e"
  THEN /\ evaluateCondition(condition.left, row) = Bool(TRUE)
       /\ evaluateCondition(condition.right, row) = Bool(TRUE)
  ELSE \/ evaluateCondition(condition.left, row) = Bool(TRUE)
       \/ evaluateCondition(condition.right, row) = Bool(TRUE)

C6_Step ==
  (/\ TemLogica(entrada')
   /\ currentDatabase = "loja"
   /\ loadTable(arquivos, "loja", TabelaDe(entrada')) # NoNode)
  => LET ast == parse(entrada')
         condition == ast.whereClause.condition
         tableData == loadTable(arquivos, "loja", TabelaDe(entrada'))
         before == tableData.registros
         after == registrosDa(arquivos', TabelaDe(entrada'))
     IN /\ resultado'.sucesso
        /\ ast.node = "SelectStatement"
             => resultado'.resultados =
                  SelectSeq(convertTableToResultSet(tableData, ast.fromClause.tableName,
                                                    ast.fromClause.alias),
                            LAMBDA row : Vale(condition, row))
        /\ ast.node = "UpdateStatement"
             => after = [i \in 1..Len(before) |->
                           IF Vale(condition, RecordRow(before[i].registro))
                           THEN [before[i] EXCEPT
                                   !.registro = ApplyAssignments(1, ast.assignments, @).registro]
                           ELSE before[i]]
        /\ ast.node = "DeleteStatement"
             => after = SelectSeq(before,
                                  LAMBDA rec : ~Vale(condition, RecordRow(rec.registro)))

C6_CondicaoComposta == [][C6_Step]_vars

\* A SELECT whose WHERE is c1 e c2 failed on a table that holds a record.
C6_SelectFalhou ==
  /\ entrada.node = "SelectStatement"
  /\ TemLogica(entrada)
  /\ entrada.whereClause.condition.operator = "e"
  /\ Len(registrosDa(arquivos, "usuarios")) > 0
  /\ ~resultado.sucesso
  /\ resultado.mensagem = "Erro na execucao: Operador matematico nao suportado"

(***************************************************************************)
(* C7.  From a store without loja, criar banco loja, criar tabela produtos *)
(* (id: numero, nome: texto, preco: numero), inserir em produtos (id,      *)
(* nome, preco) valores (1, "Mouse", 50) and selecionar * de produtos onde *)
(* preco > 10 each succeed, and the SELECT returns exactly one row, equal  *)
(* to {id: 1, nome: "Mouse", preco: 50}.                                   *)
(***************************************************************************)
MouseRow ==
  [key \in {Bare("id"), Bare("nome"), Bare("preco")} |->
     CASE key = Bare("id") -> Num(1)
       [] key = Bare("nome") -> Str("Mouse")
       [] OTHER -> Num(50)]

C7_CenarioA ==
  /\ cenario # 0 => resultado.sucesso
  /\ (cenario # 0 /\ entrada = SelecionarCaros) => resultado.resultados = <<MouseRow>>

\* The SELECT of the scenario returned one row, whose nome is "mouse" and which
\* also carries the columns under the keys produtos.<column>.
C7_Minusculas ==
  /\ cenario # 0
  /\ entrada = SelecionarCaros
  /\ resultado.sucesso
  /\ Len(resultado.resultados) = 1
  /\ resultado.resultados[1][Bare("id")] = Num(1)
  /\ resultado.resultados[1][Bare("preco")] = Num(50)
  /\ resultado.resultados[1][Bare("nome")] = Str("mouse")
  /\ <<"produtos", "nome">> \in DOMAIN resultado.resultados[1]

(***************************************************************************)
(* C8.  usuarios u esquerda juntar posts p em u.id = p.usuario_id, for     *)
(* every content of both tables, posts without records included: a left    *)
(* row that matches no right row is in the output exactly once, with every *)
(* key p.<column> of posts present and null; a left row that matches k >=  *)
(* 1 right rows is there exactly k times, once merged with each of them.   *)
(***************************************************************************)
\* What the claim makes of one left row.
EsquerdaDe(leftRow, rightResultSet, rightColumns) ==
  LET matching == SelectSeq(rightResultSet,
                            LAMBDA r : LooseEq(Get(leftRow, <<"u", "id">>),
                                               Get(r, <<"p", "usuario_id">>)))
  IN IF matching = <<>>
     THEN <<Spread(leftRow, [key \in {<<"p", rightColumns[i].nome>> :
                                        i \in 1..Len(rightColumns)} |-> Null])>>
     ELSE [j \in 1..Len(matching) |-> Spread(leftRow, matching[j])]

RECURSIVE EsquerdaFrom(_, _, _, _)
EsquerdaFrom(i, leftResultSet, rightResultSet, rightColumns) ==
  IF i > Len(leftResultSet) THEN <<>>
  ELSE EsquerdaDe(leftResultSet[i], rightResultSet, rightColumns)
       \o EsquerdaFrom(i + 1, leftResultSet, rightResultSet, rightColumns)

C8_JuncaoEsquerda ==
  (entrada = SelecionarEsquerda /\ resultado.sucesso)
  => BagOf(resultado.resultados) =
       BagOf(EsquerdaFrom(1,
               convertTableToResultSet(loadTable(arquivos, "loja", "usuarios"),
                                       "usuarios", "u"),
               convertTableToResultSet(loadTable(arquivos, "loja", "posts"), "posts", "p"),
               loadTable(arquivos, "loja", "posts").colunas))

\* posts has no record and the row of a user has no key p.usuario_id at all.
C8_SemChaves ==
  /\ entrada = SelecionarEsquerda
  /\ resultado.sucesso
  /\ registrosDa(arquivos, "posts") = <<>>
  /\ Len(resultado.resultados) = 1
  /\ <<"u", "nome">> \in DOMAIN resultado.resultados[1]
  /\ <<"p", "usuario_id">> \notin DOMAIN resultado.resultados[1]

(***************************************************************************)
(* C9.  A SELECT leaves the stored tables as they were, and the same       *)
(* SELECT executed again right after itself returns the same result,       *)
(* whatever joins, WHERE, GROUP BY and ORDER BY it has.                    *)
(***************************************************************************)
C9_Step ==
  entrada'.node = "SelectStatement"
  => /\ arquivos' = arquivos
     /\ currentDatabase' = currentDatabase
     /\ entrada = entrada' => resultado' = resultado

C9_SelectNaoAltera == [][C9_Step]_vars

\* A SELECT with a WHERE clause returned one of the two records of its table.
C9_SelectFiltrou ==
  /\ entrada.node = "SelectStatement"
  /\ entrada.whereClause # NoNode
  /\ resultado.sucesso
  /\ Len(resultado.resultados) = 1
  /\ Len(registrosDa(arquivos, "usuarios")) = 2


(***************************************************************************)
(* C10.  The token of the word 'em' is INTO if one of the 3 tokens emitted *)
(* before it is INSERT, otherwise ON if one of them is JOIN, otherwise     *)
(* INTO; so in an input made of grammatical statements the 'em' right      *)
(* after 'inserir' is INTO and the 'em' after 'juntar <table>' or 'juntar  *)
(* <table> <alias>' is ON.                                                 *)
(***************************************************************************)
\* The tokens emitted before the i-th, at most 3 of them.
Anteriores(i) == SubSeq(tokens, IF i > 3 THEN i - 3 ELSE 1, i - 1)
TipoEm(i, type) == i \in 1..Len(tokens) /\ tokens[i].value = "em" /\ tokens[i].type = type
Tipo(i, type) == i \in 1..Len(tokens) /\ tokens[i].type = type

C10_Em ==
  /\ \A i \in 1..Len(tokens) :
       tokens[i].value = "em"
       => tokens[i].type =
            IF \E j \in 1..Len(Anteriores(i)) : Anteriores(i)[j].type = "INSERT" THEN "INTO"
            ELSE IF \E j \in 1..Len(Anteriores(i)) : Anteriores(i)[j].type = "JOIN" THEN "ON"
            ELSE "INTO"
  /\ lexModo = "gramatical"
     => \A i \in 1..Len(tokens) :
          tokens[i].value = "em"
          => /\ Tipo(i - 1, "INSERT") => tokens[i].type = "INTO"
             /\ (Tipo(i - 1, "IDENTIFIER") /\ Tipo(i - 2, "JOIN")) => tokens[i].type = "ON"
             /\ (Tipo(i - 1, "IDENTIFIER") /\ Tipo(i - 2, "IDENTIFIER") /\ Tipo(i - 3, "JOIN"))
                  => tokens[i].type = "ON"

\* A grammatical input of two statements: the 'em' of the INSERT came out INTO,
\* and the 'em' of a join with an alias came out ON after the history had
\* dropped its oldest tokens.
C10_InsertEJoin ==
  /\ lexModo = "gramatical"
  /\ Len(tokens) > HistoryLimit
  /\ Len(tokenHistory) = HistoryLimit
  /\ \E i \in 1..Len(tokens) : TipoEm(i, "INTO") /\ Tipo(i - 1, "INSERT")
  /\ TipoEm(Len(tokens), "ON")
  /\ Tipo(Len(tokens) - 1, "IDENTIFIER")
  /\ Tipo(Len(tokens) - 2, "IDENTIFIER")
  /\ Tipo(Len(tokens) - 3, "JOIN")

\* The tokens of a parsed input, the EOF token left out.
Escritos == SubSeq(tokens, 1, Len(tokens) - 1)
\* parse has returned or thrown.
Analisado == Len(tokens) > 0 /\ tokens[Len(tokens)].type = "EOF"
LeadingKeywords == {"SELECT", "CREATE", "INSERT", "UPDATE", "DELETE"}
\* The input was written as one complete statement of the dialect.
UmComando ==
  /\ lexModo = "sentenca"
  /\ Analisado
  /\ Final(gramatica)
  /\ Cardinality({i \in 1..Len(tokens) : tokens[i].type \in LeadingKeywords}) = 1
\* The kind of node that the leading keywords announce.
KindOf(toks) ==
  CASE toks[1].type = "SELECT" -> "SelectStatement"
    [] toks[1].type = "INSERT" -> "InsertStatement"
    [] toks[1].type = "UPDATE" -> "UpdateStatement"
    [] toks[1].type = "DELETE" -> "DeleteStatement"
    [] toks[1].type = "CREATE" /\ toks[2].type = "TABLE" -> "CreateTableStatement"
    [] OTHER -> "CREATE_DATABASE"
\* The kind of a node that parse returned.
NodeKind(node) == IF node.node = "Object" THEN node.type ELSE node.node

(***************************************************************************)
(* C11.  For the tokens of one syntactically valid statement, parse        *)
(* returns one node of the kind of the leading keyword (SELECT, INSERT,    *)
(* UPDATE, DELETE, CREATE TABLE, CREATE DATABASE); for tokens whose first  *)
(* is none of SELECT, CREATE, INSERT, UPDATE, DELETE it raises a syntax    *)
(* error.                                                                  *)
(***************************************************************************)
C11_UmaRaiz ==
  /\ UmComando => ~parsed.err /\ NodeKind(parsed.node) = KindOf(tokens)
  /\ (Analisado /\ tokens[1].type \notin LeadingKeywords) => parsed.err

\* selecionar t.* de t, a statement of the dialect, was parsed and the
\* parser threw.
C11_TabelaAsterisco ==
  /\ UmComando
  /\ Len(tokens) > 4
  /\ tokens[1].type = "SELECT"
  /\ tokens[3].type = "."
  /\ tokens[4].type = "*"
  /\ parsed.err

\* The words of the expression written after selecionar * de t onde.
PalavrasEscritas ==
  [i \in 1..(Len(tokens) - 1 - Len(Prefixo)) |-> tokens[Len(Prefixo) + i].value]
\* An expression was written in full after the prefix, and parse has returned.
ExpressaoAnalisada ==
  /\ lexModo = "expressao"
  /\ Analisado
  /\ Len(tokens) > Len(Prefixo) + 1
SemParenteses == \A i \in 1..Len(tokens) : tokens[i].type \notin {"(", ")"}

Primario(node) == node.node \in {"LiteralExpression", "IdentifierExpression"}
Operacao(node, operators) == node.node = "BinaryExpression" /\ node.operator \in operators
\* The words of an expression without parentheses, read off its tree.
RECURSIVE EmOrdem(_)
EmOrdem(node) ==
  CASE node.node = "LiteralExpression" -> <<ToStr(node.value)>>
    [] node.node = "IdentifierExpression" -> <<node.name>>
    [] OTHER -> EmOrdem(node.left) \o <<node.operator>> \o EmOrdem(node.right)
\* The tree of or-expr := and-expr (OR and-expr)*, and-expr := cmp-expr (AND
\* cmp-expr)*, cmp-expr := primary (comparator primary)?, left-associative.
RECURSIVE Precedencia(_)
Precedencia(node) ==
  \/ Primario(node)
  \/ /\ Operacao(node, Comparators)
     /\ Primario(node.left)
     /\ Primario(node.right)
  \/ /\ Operacao(node, {"e"})
     /\ ~Operacao(node.left, {"ou"})
     /\ ~Operacao(node.right, {"ou", "e"})
     /\ Precedencia(node.left)
     /\ Precedencia(node.right)
  \/ /\ Operacao(node, {"ou"})
     /\ ~Operacao(node.right, {"ou"})
     /\ Precedencia(node.left)
     /\ Precedencia(node.right)
\* words[i..] continue an expression of the grammar without parentheses;
\* antes is what came before: "" nothing or an operator e/ou, "a" a primary
\* that may take a comparator, "<" a comparator, "ab" the second primary.
RECURSIVE Gramatical(_, _, _)
Gramatical(words, i, antes) ==
  IF i > Len(words) THEN antes \in {"a", "ab"}
  ELSE CASE words[i] \in {"t", "1"} ->
              antes \in {"", "<"} /\ Gramatical(words, i + 1, IF antes = "" THEN "a" ELSE "ab")
         [] words[i] = "<" -> antes = "a" /\ Gramatical(words, i + 1, "<")
         [] words[i] \in {"e", "ou"} -> antes \in {"a", "ab"} /\ Gramatical(words, i + 1, "")
         [] OTHER -> FALSE

T == IdentifierExpression("t", "")
Um == LiteralExpression(Num(1), "NUMBER")

(***************************************************************************)
(* C12.  parseExpression gives OR the lowest precedence, AND the next,     *)
(* comparison the highest, OR and AND associating to the left: an          *)
(* expression written without parentheses parses exactly when it is        *)
(* and-expressions joined by ou, each comparisons joined by e, each at     *)
(* most one comparator between two primaries; its tree reads back as the   *)
(* words written and has that shape (a ou b e c is OR(a, AND(b, c)),       *)
(* a e b ou c is OR(AND(a, b), c)), so no comparison is the operand of a   *)
(* comparison (a < b < c gives no tree).                                   *)
(***************************************************************************)
C12_Precedencia ==
  (ExpressaoAnalisada /\ SemParenteses)
  => /\ ~parsed.err <=> Gramatical(PalavrasEscritas, 1, "")
     /\ ~parsed.err
        => /\ parsed.node.node = "SelectStatement"
           /\ EmOrdem(parsed.node.whereClause.condition) = PalavrasEscritas
           /\ Precedencia(parsed.node.whereClause.condition)
     /\ PalavrasEscritas = <<"t", "ou", "1", "e", "t">>
        => parsed.node.whereClause.condition
             = BinaryExpression(T, "ou", BinaryExpression(Um, "e", T))
     /\ PalavrasEscritas = <<"t", "e", "1", "ou", "t">>
        => parsed.node.whereClause.condition
             = BinaryExpression(BinaryExpression(T, "e", Um), "ou", T)
     /\ PalavrasEscritas = <<"t", "<", "1", "<", "t">> => parsed.err

\* selecionar * de t onde t ou 1 e t was parsed into OR(t, AND(1, t)).
C12_OuDeE ==
  /\ ExpressaoAnalisada
  /\ PalavrasEscritas = <<"t", "ou", "1", "e", "t">>
  /\ ~parsed.err
  /\ parsed.node.whereClause.condition
       = BinaryExpression(T, "ou", BinaryExpression(Um, "e", T))

\* The statement written has the word foo in it (it can only be written
\* after an ordering term).
TemFoo == \E i \in 1..Len(tokens) : tokens[i].value = "foo"
\* The directions written for the ordering terms of toks[i..], atual the one
\* of the term being read.
RECURSIVE DirecoesEscritas(_, _, _)
DirecoesEscritas(toks, i, atual) ==
  IF toks[i].type \in {"EOF", ";"} THEN <<atual>>
  ELSE IF toks[i].type = "," THEN <<atual>> \o DirecoesEscritas(toks, i + 1, "ASC")
  ELSE DirecoesEscritas(toks, i + 1,
                        IF toks[i].value \in {"desc", "decrescente"} THEN "DESC" ELSE atual)
\* The place of the first ordering term.
PrimeiroTermo == 1 + CHOOSE i \in 2..Len(tokens) : tokens[i - 1].type = "ORDER" /\ tokens[i].type = "BY"

(***************************************************************************)
(* C13.  A statement whose ORDER BY has an ordering term followed by a     *)
(* word that is no direction word (asc, crescente, desc, decrescente)      *)
(* parses without error, and that term is ascending.                       *)
(***************************************************************************)
C13_DirecaoDesconhecida ==
  (UmComando /\ TemFoo)
  => /\ ~parsed.err
     /\ parsed.node.node = "SelectStatement"
     /\ [k \in 1..Len(parsed.node.orderByClause) |-> parsed.node.orderByClause[k].direction]
          = DirecoesEscritas(tokens, PrimeiroTermo, "ASC")

\* selecionar * de t ordenar por t foo was parsed, and the parser threw at foo.
C13_PalavraRecusada ==
  /\ UmComando
  /\ TemFoo
  /\ tokens[Len(tokens) - 1].value = "foo"
  /\ parsed.err
  /\ parsed.message = "Comando nao reconhecido"
  /\ parsed.pos = Len(tokens) - 1

\* A row of a join of t and u.
LinhaTU ==
  [key \in {Bare("id"), <<"t", "id">>, <<"u", "id">>} |->
     IF key = <<"t", "id">> THEN Num(1) ELSE Num(2)]
\* The input has the select-list entry <table> . * at tokens i, i+1, i+2.
TabelaAsterisco(i) ==
  /\ i + 2 <= Len(tokens)
  /\ tokens[i].type = "IDENTIFIER"
  /\ tokens[i + 1].type = "."
  /\ tokens[i + 2].type = "*"

(***************************************************************************)
(* C14.  A select-list entry tabela.* is accepted by the parser and gives  *)
(* an all-columns entry with that table name, which projection turns into  *)
(* that table's qualified columns alone, the prefix stripped.              *)
(***************************************************************************)
C14_TabelaPontoAsterisco ==
  \A i \in 1..Len(tokens) :
    (UmComando /\ TabelaAsterisco(i))
    => /\ ~parsed.err
       /\ parsed.node.node = "SelectStatement"
       /\ \E k \in 1..Len(parsed.node.selectList) :
            /\ parsed.node.selectList[k] =
                 ColumnExpression(AllColumnsExpression(tokens[i].value), "")
            /\ applyProjection(<<LinhaTU>>, <<parsed.node.selectList[k]>>)
                 = Rows(<<[key \in {Bare("id")} |-> Num(1)]>>)

\* selecionar t.* de t was parsed: the parser threw at the asterisk, where it
\* expected the name of a column.
C14_AsteriscoRecusado ==
  /\ UmComando
  /\ TabelaAsterisco(2)
  /\ parsed.err
  /\ parsed.message = "Esperado"
  /\ parsed.pos = 4

\* The rows of usuarios as the SELECT reads them, in key order.
LinhasDeUsuarios ==
  convertTableToResultSet(loadTable(arquivos, "loja", "usuarios"), "usuarios", "")
\* The rows that are the first of their tuple of values, in input order.
PrimeirasPorTupla(linhas, expressions) ==
  LET tupla(i) == groupValues(expressions, linhas[i])
      primeiras == {i \in 1..Len(linhas) : \A j \in 1..(i - 1) : tupla(j) # tupla(i)}
  IN SelectSeq([i \in 1..Len(linhas) |-> <<i, linhas[i]>>],
               LAMBDA p : p[1] \in primeiras)

\* C15: GROUP BY returns exactly one row per distinct tuple of evaluated
\* group-expression values, the first input row having that tuple, in order of
\* first appearance; rows whose tuples differ in any component (an absent value
\* versus empty text included) are never placed in the same group.
C15_UmaLinhaPorTupla ==
  entrada \in GroupByPool =>
    /\ resultado.sucesso
    /\ LET primeiras == PrimeirasPorTupla(LinhasDeUsuarios, entrada.groupByClause)
       IN resultado.resultados =
            applyProjection([i \in 1..Len(primeiras) |-> primeiras[i][2]],
                            entrada.selectList).rows

\* "agrupar por nome" has run over a record without nome followed by a record
\* whose nome is the empty text, and returned a single row for the two.
C15_AusenteComVazio ==
  /\ entrada = Agrupar(<<Id("nome")>>)
  /\ Len(LinhasDeUsuarios) = 2
  /\ groupValues(entrada.groupByClause, LinhasDeUsuarios[1]) = <<Undefined>>
  /\ groupValues(entrada.groupByClause, LinhasDeUsuarios[2]) = <<Str("")>>
  /\ resultado.sucesso
  /\ Len(resultado.resultados) = 1

\* The rows ORDER BY is given: the projection of the stored rows.
LinhasProjetadas == applyProjection(LinhasDeUsuarios, Star).rows
\* The value of ordering key k in a row.
ValorDaChave(orderByClause, k, row) == evaluateExpression(orderByClause[k].expression, row)
\* The ordering keys on which two rows have different values.
ChavesDistintas(orderByClause, a, b) ==
  {k \in 1..Len(orderByClause) :
     ValorDaChave(orderByClause, k, a) # ValorDaChave(orderByClause, k, b)}
PrimeiraChave(chaves) == CHOOSE k \in chaves : \A j \in chaves : k <= j
\* Row a may stand before row b: on the first key on which they differ, b's
\* value is not before a's in that key's direction.
PodeVirAntes(orderByClause, a, b) ==
  LET chaves == ChavesDistintas(orderByClause, a, b)
  IN chaves # {} =>
       LET k == PrimeiraChave(chaves)
           x == ValorDaChave(orderByClause, k, a)
           y == ValorDaChave(orderByClause, k, b)
       IN IF orderByClause[k].direction = "DESC" THEN ~Less(x, y) ELSE ~Less(y, x)

\* C16: the output of ORDER BY is a permutation of its input rows in which any
\* two rows are ordered by the first ordering key on which their values differ,
\* ascending or descending by that key's own direction, and rows equal on every
\* key keep their input relative order.
C16_OrdenacaoEstavel ==
  entrada \in OrderByPool =>
    /\ resultado.sucesso
    /\ BagOf(resultado.resultados) = BagOf(LinhasProjetadas)
    /\ \A i, j \in 1..Len(resultado.resultados) :
         i < j => PodeVirAntes(entrada.orderByClause,
                               resultado.resultados[i], resultado.resultados[j])
    /\ \A r \in Range(LinhasProjetadas) :
         LET iguais(q) == SelectSeq(q, LAMBDA x :
                                         ChavesDistintas(entrada.orderByClause, x, r) = {})
         IN iguais(resultado.resultados) = iguais(LinhasProjetadas)

\* "ordenar por id" has run over the records id 2, no id, id 1 and returned
\* them in that order: id 2 before id 1.
C16_DoisAntesDeUm ==
  /\ entrada = Ordenar(<<OrderByExpression(Id("id"), "ASC")>>)
  /\ idsDa(arquivos, "usuarios") = <<Num(2), Undefined, Num(1)>>
  /\ resultado.sucesso
  /\ Len(resultado.resultados) = 3
  /\ evaluateExpression(Id("id"), resultado.resultados[1]) = Num(2)
  /\ evaluateExpression(Id("id"), resultado.resultados[3]) = Num(1)

\* The WHERE predicate holds on a record: a comparison as evaluateCondition
\* computes it, "e" and "ou" as conjunction and disjunction, no WHERE as true.
RECURSIVE PredicadoVale(_, _)
PredicadoVale(condition, registro) ==
  IF condition.node = "BinaryExpression" /\ condition.operator \in {"e", "ou"}
  THEN IF condition.operator = "e"
       THEN PredicadoVale(condition.left, registro) /\ PredicadoVale(condition.right, registro)
       ELSE PredicadoVale(condition.left, registro) \/ PredicadoVale(condition.right, registro)
  ELSE evaluateCondition(condition, RecordRow(registro)) = Bool(TRUE)
Casa(ast, registro) ==
  ast.whereClause = NoNode \/ PredicadoVale(ast.whereClause.condition, registro)
\* Every assignment of the UPDATE gives its column a literal or a column's value.
AtribuiValores(ast) ==
  \A a \in 1..Len(ast.assignments) :
    ast.assignments[a].value.node \in {"LiteralExpression", "IdentifierExpression"}
ColunasAtribuidas(ast) == {ast.assignments[a].column : a \in 1..Len(ast.assignments)}

C17_Step ==
  (/\ entrada'.node \in {"UpdateStatement", "DeleteStatement"}
   /\ entrada'.node = "UpdateStatement" => AtribuiValores(entrada')
   /\ Alcanca(entrada', arquivos, currentDatabase))
  => LET ast == parse(entrada')
         before == registrosDa(arquivos, ast.tableName)
         after == registrosDa(arquivos', ast.tableName)
         casam == {i \in 1..Len(before) : Casa(ast, before[i].registro)}
     IN /\ resultado'.sucesso
        /\ ast.node = "UpdateStatement" =>
             /\ resultado'.mensagem = ToString(Cardinality(casam)) \o " registro(s) atualizado(s)"
             /\ Len(after) = Len(before)
             /\ \A i \in 1..Len(before) :
                  /\ after[i].id = before[i].id
                  /\ i \notin casam => after[i] = before[i]
                  /\ i \in casam =>
                       /\ after[i].registro =
                            ApplyAssignments(1, ast.assignments, before[i].registro).registro
                       /\ \A c \in (DOMAIN before[i].registro) \ ColunasAtribuidas(ast) :
                            /\ c \in DOMAIN after[i].registro
                            /\ after[i].registro[c] = before[i].registro[c]
        /\ ast.node = "DeleteStatement" =>
             /\ resultado'.mensagem = ToString(Cardinality(casam)) \o " registro(s) removido(s)"
             /\ after = SelectSeq(before, LAMBDA rec : ~Casa(ast, rec.registro))

\* C17: UPDATE applies its assignments to exactly the records on which the
\* WHERE predicate holds (every record when WHERE is absent) and reports that
\* number; DELETE removes exactly those records and reports that number; every
\* non-matching record keeps its identifier and all its column values, and in
\* UPDATE the matching records keep their identifiers and unassigned columns.
C17_QuadroDeUpdateEDelete == [][C17_Step]_vars

\* atualizar usuarios definir nome = "b" onde id = 1 e nome = "a" was executed
\* on a table whose record (1, "a") satisfies both comparisons: the statement
\* failed and the record still has nome "a".
C17_CasaMasNaoAtualiza ==
  /\ entrada = UpdateStatement("usuarios", <<Set("nome", StrLit("b"))>>,
                               WhereClause(BinaryExpression(IdEq1, "e", NomeEqA)))
  /\ \E i \in 1..Len(registrosDa(arquivos, "usuarios")) :
       /\ Casa(entrada, registrosDa(arquivos, "usuarios")[i].registro)
       /\ campo(registrosDa(arquivos, "usuarios")[i].registro, "nome") = Str("a")
  /\ ~resultado.sucesso
  /\ resultado.mensagem = "Erro na execucao: Operador matematico nao suportado"


\* The effective column list of an INSERT: the explicit list, or every declared
\* column in declared order.
ListaEfetiva(typed, st) ==
  IF typed.columns # <<>> THEN typed.columns
  ELSE [i \in 1..Len(loadTable(st, "loja", typed.tableName).colunas) |->
          loadTable(st, "loja", typed.tableName).colunas[i].nome]
MensagemDeAridade ==
  "Erro na execucao: Numero de valores nao corresponde ao numero de colunas"

C18_Step ==
  (entrada'.node = "InsertStatement" /\ Alcanca(entrada', arquivos, currentDatabase))
  => LET columns == ListaEfetiva(entrada', arquivos)
         values == parse(entrada').values
         before == registrosDa(arquivos, entrada'.tableName)
         after == registrosDa(arquivos', entrada'.tableName)
     IN IF Len(values) # Len(columns)
        THEN /\ ~resultado'.sucesso
             /\ resultado'.mensagem = MensagemDeAridade
             /\ arquivos' = arquivos
        ELSE /\ resultado'.mensagem # MensagemDeAridade
             /\ BemTipada(entrada', arquivos) => resultado'.sucesso
             /\ resultado'.sucesso =>
                  /\ Len(after) = Len(before) + 1
                  /\ DOMAIN after[Len(after)].registro = Range(columns)
                  /\ \A i \in 1..Len(columns) :
                       after[Len(after)].registro[columns[i]] = values[i].value

\* C18: an INSERT whose number of values differs from the number of columns of
\* its effective column list (the explicit list, or all declared columns in
\* declared order when no list is given) fails with an execution error and
\* stores nothing; when the numbers are equal, the i-th value is stored under
\* the i-th column of that list.
C18_Aridade == [][C18_Step]_vars

\* Both cases have happened: inserir em fichas (nome, id) valores ("a", 1)
\* stored nome "a" and id 1, and then an INSERT without column list and with
\* fewer values than fichas has columns was refused.
C18_ArmazenadoERecusado ==
  /\ Len(registrosDa(arquivos, "fichas")) = 1
  /\ registrosDa(arquivos, "fichas")[1].registro =
       [c \in {"nome", "id"} |-> IF c = "nome" THEN Str("a") ELSE Num(1)]
  /\ entrada.node = "InsertStatement"
  /\ entrada.columns = <<>>
  /\ Len(entrada.values) = 2
  /\ ~resultado.sucesso
  /\ resultado.mensagem = MensagemDeAridade

\* The scalar type a declared type asks of a value: a sized type asks what
\* its base type asks.
TipoEscalar(tipo) ==
  CASE tipo = "numero" -> "number"
    [] tipo \in {"texto", sizedType("texto", "50")} -> "string"
    [] tipo = "booleano" -> "boolean"
\* The columns of the effective list whose value is not of the declared type.
ColunasMalTipadas(typed, st) ==
  {i \in 1..Len(ListaEfetiva(typed, st)) :
     typed.values[i].value.k #
       TipoEscalar(columnTypeOf(loadTable(st, "loja", typed.tableName),
                                ListaEfetiva(typed, st)[i]))}

C19_Step ==
  (/\ entrada'.node = "InsertStatement"
   /\ Alcanca(entrada', arquivos, currentDatabase)
   /\ Len(entrada'.values) = Len(ListaEfetiva(entrada', arquivos)))
  => IF ColunasMalTipadas(entrada', arquivos) # {}
     THEN /\ ~resultado'.sucesso
          /\ resultado'.mensagem = "Erro na execucao: Tipo invalido para coluna"
          /\ arquivos' = arquivos
     ELSE /\ resultado'.sucesso
          /\ Len(registrosDa(arquivos', "fichas")) = Len(registrosDa(arquivos, "fichas")) + 1

\* C19: INSERT rejects, with a type-mismatch failure and no stored record,
\* every value whose scalar type does not match its column's declared type,
\* for each declared type numero, texto, sized texto(n) and booleano; a value
\* of the declared type is accepted.
C19_TipoVerificado == [][C19_Step]_vars

\* inserir em fichas (apelido) valores (1) was accepted: the number 1 is
\* stored in apelido, declared texto(50).
C19_NumeroEmTextoDimensionado ==
  /\ entrada = InsertStatement("fichas", <<"apelido">>, <<NumLit(1)>>)
  /\ resultado.sucesso
  /\ \E i \in 1..Len(registrosDa(arquivos, "fichas")) :
       registrosDa(arquivos, "fichas")[i].registro = [c \in {"apelido"} |-> Num(1)]

\* The numbers stored in column id of usuarios.
IdsNumericos(st) == numericValues(loadTable(st, "loja", "usuarios"), "id")
Maximo(S) == CHOOSE x \in S : \A y \in S : y <= x
\* One plus the maximum number stored in id, 1 when no record holds a number.
ProximoId(st) == IF IdsNumericos(st) = {} THEN 1 ELSE Maximo(IdsNumericos(st)) + 1
\* The record that insertRecord has just stored.
Inserido == CHOOSE r \in Range(registrosDa(arquivos', "usuarios")) :
              r.id = Len(registrosDa(arquivos, "usuarios")) + 1

\* A successful insertRecord: an absent id becomes one plus the maximum stored
\* number (1 when there is none), a supplied id is kept.
C20_Inserir ==
  (entrada'.node = "insertRecord" /\ resultado'.sucesso)
  => /\ "id" \in DOMAIN Inserido.registro
     /\ Inserido.registro["id"] =
          IF "id" \in DOMAIN entrada'.record THEN entrada'.record["id"]
          ELSE Num(ProximoId(arquivos))
\* A DELETE that removes the record holding the maximum M while M - 1 is still
\* stored (or M is 1 and no number is left): the next absent id is M again.
C20_Remover ==
  (/\ entrada'.node = "DeleteStatement"
   /\ resultado'.sucesso
   /\ IdsNumericos(arquivos) # {}
   /\ Maximo(IdsNumericos(arquivos)) \notin IdsNumericos(arquivos')
   /\ \/ Maximo(IdsNumericos(arquivos)) - 1 \in IdsNumericos(arquivos')
      \/ Maximo(IdsNumericos(arquivos)) = 1)
  => /\ ProximoId(arquivos') = Maximo(IdsNumericos(arquivos))
     /\ applyAutoValues(NoRecord, loadTable(arquivos', "loja", "usuarios"))["id"]
          = Num(Maximo(IdsNumericos(arquivos)))

\* C20: for a record in which the auto-increment column is absent the
\* validator sets it to one plus the maximum numeric value stored in that
\* column, or to 1 when no record holds a number there; a record that supplies
\* a value keeps it; the counter is not monotonic: after the record holding the
\* maximum is deleted, the next insert that omits the column receives that
\* value again.
C20_AutoIncremento == [][C20_Inserir /\ C20_Remover]_vars

\* insertRecord was given a record whose id is 0 and stored it with another id.
C20_ZeroSubstituido ==
  /\ entrada.node = "insertRecord"
  /\ campo(entrada.record, "id") = Num(0)
  /\ resultado.sucesso
  /\ \A i \in 1..Len(registrosDa(arquivos, "usuarios")) :
       campo(registrosDa(arquivos, "usuarios")[i].registro, "id") # Num(0)

\* Some stored record of contas has this value in this column.
JaTem(st, column, value) ==
  \E i \in 1..Len(registrosDa(st, "contas")) :
    campo(registrosDa(st, "contas")[i].registro, column) = value
\* Some record of usuarios has this id.
DonoExiste(st, value) ==
  \E i \in 1..Len(registrosDa(st, "usuarios")) :
    campo(registrosDa(st, "usuarios")[i].registro, "id") = value
\* The message of each rule of contas the record violates, in the order of
\* the columns and then of the table constraints.
Violacoes(st, record) ==
  (IF campo(record, "id") = Undefined
   THEN <<"Chave primaria 'id' nao pode ser nula">>
   ELSE IF JaTem(st, "id", campo(record, "id"))
   THEN <<"Valor duplicado para chave primaria 'id'">> ELSE <<>>)
  \o (IF campo(record, "email") = Undefined
      THEN <<"Coluna 'email' nao pode ser nula">>
      ELSE IF JaTem(st, "email", campo(record, "email"))
      THEN <<"Valor duplicado para coluna unica 'email'">> ELSE <<>>)
  \o (IF campo(record, "dono") # Undefined /\ ~DonoExiste(st, campo(record, "dono"))
      THEN <<"Chave estrangeira invalida: dono">> ELSE <<>>)
  \o (IF campo(record, "codigo") # Undefined /\ JaTem(st, "codigo", campo(record, "codigo"))
      THEN <<"Valor duplicado para coluna unica 'codigo'">> ELSE <<>>)

C21_Step ==
  (entrada'.node = "insertRecord" /\ entrada'.tableName = "contas")
  => IF Violacoes(arquivos, entrada'.record) = <<>>
     THEN /\ resultado'.sucesso
          /\ registrosDa(arquivos', "contas") =
               Append(registrosDa(arquivos, "contas"),
                      [id |-> Len(registrosDa(arquivos, "contas")) + 1,
                       registro |-> entrada'.record])
     ELSE /\ ~resultado'.sucesso
          /\ resultado'.mensagem =
               "Violacao de constraints: " \o joinErrors(Violacoes(arquivos, entrada'.record))
          /\ arquivos' = arquivos

\* C21: validateInsert does not stop at the first violation: for a record that
\* violates several rules (NOT NULL, PRIMARY KEY null or duplicate, UNIQUE
\* duplicate, FOREIGN KEY without referenced table or value) the list holds a
\* message for each violated rule and is empty exactly when no rule is
\* violated; insertRecord persists the record only when the list is empty.
C21_TodasAsViolacoes == [][C21_Step]_vars

\* Two records with codigo "a" are stored in contas, whose table constraint
\* declares codigo unique: the second insertRecord succeeded.
C21_CodigoRepetido ==
  /\ entrada.node = "insertRecord"
  /\ resultado.sucesso
  /\ Len(registrosDa(arquivos, "contas")) = 2
  /\ campo(registrosDa(arquivos, "contas")[1].registro, "codigo") = Str("a")
  /\ campo(registrosDa(arquivos, "contas")[2].registro, "codigo") = Str("a")

\* The literal each column of itens was declared with.
LiteralDeclarado ==
  [n0 |-> Num(0), n1 |-> Num(1), t0 |-> Str(""), ta |-> Str("a")]
ColunaDeItens(st, c) ==
  LET colunas == loadTable(st, "loja", "itens").colunas
  IN colunas[CHOOSE i \in 1..Len(colunas) : colunas[i].nome = c]
\* The literal converted to the declared type of column c.
LiteralConvertido(st, c) ==
  IF ColunaDeItens(st, c).tipo = "numero" THEN LiteralDeclarado[c]
  ELSE Str(ToStr(LiteralDeclarado[c]))
TokenGuardado(st, c) ==
  ColunaDeItens(st, c).constraints = <<"DEFAULT:" \o ToStr(LiteralDeclarado[c])>>
UltimoItem(st) ==
  registrosDa(st, "itens")[Len(registrosDa(st, "itens"))].registro
C22_Colunas(cs) ==
  /\ \A c \in cs : TokenGuardado(arquivos, c)
  /\ (entrada'.node = "insertRecord" /\ ~resultado'.lancou)
       => /\ Len(registrosDa(arquivos', "itens")) = Len(registrosDa(arquivos, "itens")) + 1
          /\ \A c \in cs :
               campo(UltimoItem(arquivos'), c)
                 = IF campo(entrada'.record, c) \in {Undefined, Null}
                   THEN LiteralConvertido(arquivos, c)
                   ELSE campo(entrada'.record, c)
\* C22: every column declared with DEFAULT <literal> carries the token
\* DEFAULT:<literal>, and a validated insert stores, for such a column, the
\* literal converted to the column's type when the record has the column null
\* or absent, and the supplied value otherwise.
C22_Default == [][C22_Colunas({"n0", "n1", "t0", "ta"})]_vars
\* The same for the two columns whose literal is truthy (1 and "a").
C22_DefaultVerdadeiro == [][C22_Colunas({"n1", "ta"})]_vars
\* A record offered without n0 was stored with NaN there, and the column's
\* token is DEFAULT:[object Object].
C22_ZeroViraNaN ==
  /\ entrada.node = "insertRecord"
  /\ ~resultado.lancou
  /\ "n0" \notin DOMAIN entrada.record
  /\ IsNaN(campo(UltimoItem(arquivos), "n0"))
  /\ ColunaDeItens(arquivos, "n0").constraints = <<"DEFAULT:[object Object]">>

\* A call that has read the file for a statement it has not finished.
EntreLerEEscrever(k) == emCurso[k].pc \in {"saveTable", "saveDatabase"}
\* Call k reads the file in this step.
Le(k) ==
  /\ emCurso[k].pc \in {"loadTable", "saveTable"}
  /\ emCurso'[k].pc # emCurso[k].pc
TodasRetornaram ==
  /\ Len(emCurso) = MaxChamadas
  /\ \A k \in 1..Len(emCurso) : emCurso[k].pc = "fim"
SucessosEm(tableName) ==
  Cardinality({k \in 1..Len(emCurso) :
                 emCurso[k].resultado.sucesso /\ emCurso[k].ast.tableName = tableName})
C23_Step ==
  /\ \A k \in 1..Len(emCurso) :
       Le(k) => \A j \in 1..Len(emCurso) : j # k => ~EntreLerEEscrever(j)
  /\ TodasRetornaram' =>
       \A t \in {"usuarios", "posts"} :
         Len(registrosDa(arquivos', t)) = SucessosEm(t)'
\* C23: calls of execute on the same database never overlap (no call reads
\* the file while another is between its read and its write), and once all
\* calls have returned, every successful insert is in the stored state, also
\* when the calls target different tables.
C23_SemSobreposicao == [][C23_Step]_vars
\* Two calls returned success, one on usuarios and one on posts, and one of
\* the two tables holds no record.
C23_AtualizacaoPerdida ==
  /\ TodasRetornaram
  /\ \A k \in 1..Len(emCurso) : emCurso[k].resultado.sucesso
  /\ emCurso[1].ast.tableName # emCurso[2].ast.tableName
  /\ \E t \in {"usuarios", "posts"} : Len(registrosDa(arquivos, t)) = 0

\* What a reader of the text finds, character by character: it is outside a
\* token ("fora"), after a ! ("bang"), inside a string opened by a quote or
\* after a backslash inside one, or at a character no token starts with.
Leitura(modo, c) ==
  CASE modo.lugar = "erro" -> modo
    [] modo.lugar = "dentro" ->
         IF c = modo.quote THEN [lugar |-> "fora", quote |-> ""]
         ELSE IF c = "\\" THEN [lugar |-> "escape", quote |-> modo.quote]
         ELSE modo
    [] modo.lugar = "escape" -> [lugar |-> "dentro", quote |-> modo.quote]
    [] modo.lugar = "bang" ->
         IF c = "=" THEN [lugar |-> "fora", quote |-> ""] ELSE [lugar |-> "erro", quote |-> ""]
    [] OTHER ->
         IF c \in {"'", "\""} THEN [lugar |-> "dentro", quote |-> c]
         ELSE IF c = "!" THEN [lugar |-> "bang", quote |-> ""]
         ELSE IF c \in {"a", "A", "1", " ", "="} THEN modo
         ELSE [lugar |-> "erro", quote |-> ""]
RECURSIVE LeituraAte(_, _)
LeituraAte(input, n) ==
  IF n = 0 THEN [lugar |-> "fora", quote |-> ""]
  ELSE Leitura(LeituraAte(input, n - 1), input[n])
\* The text has a string without closing quote or a character that starts
\* no token.
MalFormada(input) == LeituraAte(input, Len(input)).lugar # "fora"
\* C24: tokenize returns tokens whose last is the only EOF token, or raises a
\* lexical error and returns no token; it raises exactly when the text has a
\* string literal without closing quote or a character that starts no token.
C24_TokensOuErro ==
  lexModo # "texto" =>
    /\ lexModo = "fim" =>
         /\ tokens # <<>>
         /\ tokens[Len(tokens)].type = "EOF"
         /\ \A i \in 1..(Len(tokens) - 1) : tokens[i].type # "EOF"
    /\ lexModo # "fim" =>
         /\ tokens = <<>>
         /\ lexModo \in {"String nao fechada", "Caractere inesperado"}
    /\ (lexModo # "fim") <=> MalFormada(entrada)
\* tokenize raised for a string left open after a word it had already read.
C24_StringAberta ==
  /\ lexModo = "String nao fechada"
  /\ tokens = <<>>
  /\ Len(entrada) = MaxTexto
  /\ entrada[1] = "a"
  /\ entrada[3] = "\""

ColunasDeclaradas(tableData) ==
  {tableData.colunas[i].nome : i \in 1..Len(tableData.colunas)}
ColunasGuardadas(st, tableName) ==
  UNION {DOMAIN registrosDa(st, tableName)[i].registro :
           i \in 1..Len(registrosDa(st, tableName))}
C25_Step ==
  (/\ entrada'.node = "InsertStatement"
   /\ \E i \in 1..Len(entrada'.columns) :
        entrada'.columns[i] \notin ColunasDeclaradas(loadTable(arquivos, "loja", "fichas")))
  => /\ ~resultado'.sucesso
     /\ arquivos' = arquivos
\* C25: an INSERT whose column list names a column the table does not
\* declare fails and stores nothing, and every stored record has only
\* columns the table declares.
C25_ColunaNaoDeclarada ==
  [][C25_Step /\ ColunasGuardadas(arquivos', "fichas")
                   \subseteq ColunasDeclaradas(loadTable(arquivos', "loja", "fichas"))]_vars
\* inserir em fichas (id, extra) valores (1, "a") succeeded and the record
\* stored has the column extra.
C25_ExtraGuardada ==
  /\ entrada.node = "InsertStatement"
  /\ entrada.columns = <<"id", "extra">>
  /\ resultado.sucesso
  /\ "extra" \in ColunasGuardadas(arquivos, "fichas")

\* The stored post i is in row of the output, under the alias p.
PostNaLinha(i, row) ==
  /\ Get(row, <<"p", "id">>) = campo(registrosDa(arquivos, "posts")[i].registro, "id")
  /\ Get(row, <<"p", "usuario_id">>)
       = campo(registrosDa(arquivos, "posts")[i].registro, "usuario_id")
\* C26: the output of a RIGHT join holds every row of the joined table at
\* least once, and the columns of the left table are null in the rows of a
\* right row that no left row matches (here: usuarios is empty).
C26_JuncaoDireita ==
  (entrada = SelecionarDireita /\ resultado.sucesso) =>
    /\ \A i \in 1..Len(registrosDa(arquivos, "posts")) :
         \E j \in 1..Len(resultado.resultados) : PostNaLinha(i, resultado.resultados[j])
    /\ registrosDa(arquivos, "usuarios") = <<>> =>
         \A j \in 1..Len(resultado.resultados) :
           \A key \in DOMAIN resultado.resultados[j] :
             key[1] = "u" => resultado.resultados[j][key] = Null
\* The RIGHT join returned no row although posts holds one.
C26_PostSemLinha ==
  /\ entrada = SelecionarDireita
  /\ resultado.sucesso
  /\ Len(registrosDa(arquivos, "posts")) = 1
  /\ resultado.resultados = <<>>

\* C27: execute given the array that parse returns for an input of two or
\* more statements, or for an empty input, returns a failure and executes
\* none of the statements: the store and the selected database are as before.
C27_ArrayRecusado ==
  [][entrada'.node = "Array" =>
       /\ ~resultado'.sucesso
       /\ arquivos' = arquivos
       /\ currentDatabase' = currentDatabase]_vars
\* criar banco loja; criar banco loja was refused where loja did not exist,
\* and loja still does not exist.
C27_DoisCriarRecusados ==
  /\ entrada.node = "Array"
  /\ Len(entrada.statements) = 2
  /\ ~resultado.sucesso
  /\ ~arquivoExiste(arquivos, "loja")

\* The column a SELECT of ProjecaoPool projects, its ordering term and the
\* rows the projection of the stored records gives, in stored order.
ColunaProjetada == entrada.selectList[1].expression.name
TermoDeOrdem == entrada.orderByClause[1]
LinhasNaOrdemGuardada ==
  [i \in 1..Len(registrosDa(arquivos, "usuarios")) |->
     [key \in {Bare(ColunaProjetada)} |->
        campo(registrosDa(arquivos, "usuarios")[i].registro, ColunaProjetada)]]
\* row a may stand right before row b under the ordering term.
NaoDepois(a, b) ==
  IF TermoDeOrdem.direction = "DESC"
  THEN ~Less(a[Bare(ColunaProjetada)], b[Bare(ColunaProjetada)])
  ELSE ~Less(b[Bare(ColunaProjetada)], a[Bare(ColunaProjetada)])
\* C28: ORDER BY is evaluated on the projected rows.  A term naming a column
\* that is not projected leaves the rows in stored order; a term naming the
\* projected column, bare or table-qualified, gives the projected rows
\* reordered so that no row stands right before one that the term puts
\* before it.
C28_OrdemDepoisDaProjecao ==
  (entrada \in ProjecaoPool /\ resultado.sucesso) =>
    IF TermoDeOrdem.expression.name # ColunaProjetada
    THEN resultado.resultados = LinhasNaOrdemGuardada
    ELSE /\ BagOf(resultado.resultados) = BagOf(LinhasNaOrdemGuardada)
         /\ \A i \in 1..(Len(resultado.resultados) - 1) :
              NaoDepois(resultado.resultados[i], resultado.resultados[i + 1])
\* selecionar nome de usuarios u ordenar por id decrescente left the stored
\* order although the ids are stored in ascending order.
C28_IdNaoOrdena ==
  /\ entrada = ProjetarEOrdenar("nome", Id("id"), "DESC")
  /\ resultado.sucesso
  /\ Len(registrosDa(arquivos, "usuarios")) = 2
  /\ campo(registrosDa(arquivos, "usuarios")[1].registro, "id") = Num(1)
  /\ campo(registrosDa(arquivos, "usuarios")[2].registro, "id") = Num(2)
  /\ resultado.resultados = <<[key \in {Bare("nome")} |-> Str("a")],
                              [key \in {Bare("nome")} |-> Str("")]>>

\* A parse function started at p stopped at the cursor of r: never before p,
\* and past p unless it raised.
NaoRecua(r, p) == r.pos >= p /\ r.pos <= Len(tokens)
Avanca(r, p) == NaoRecua(r, p) /\ (r.err \/ r.pos > p)
\* C29: parse on a token list that ends in EOF ends, by raising or by
\* returning with the cursor on the EOF token; from every cursor position
\* the cursor never goes back, and each statement, each item of a
\* comma-separated list and each column definition with its constraints
\* consumes at least one token or raises.
C29_ParseTermina ==
  parsed # NotParsed =>
    /\ NaoRecua(parsed, 1)
    /\ ~parsed.err => parsed.pos = Len(tokens)
    /\ \A p \in 1..Len(tokens) :
         /\ Avanca(parseStatement(tokens, p), p)
         /\ Avanca(parseExpression(tokens, p), p)
         /\ Avanca(parseSelectList(tokens, p), p)
         /\ Avanca(parseJoinClause(tokens, p), p)
         /\ Avanca(parseColumnDefinition(tokens, p), p)
         /\ Avanca(parseTableConstraint(tokens, p), p)
         /\ Avanca(expressionListLoop(tokens, p, <<>>), p)
         /\ Avanca(orderByLoop(tokens, p, <<>>), p)
         /\ Avanca(columnListLoop(tokens, p, <<>>), p)
         /\ Avanca(assignmentLoop(tokens, p, <<>>), p)
         /\ NaoRecua(joinLoop(tokens, p, <<>>), p)
         /\ NaoRecua(constraintLoop(tokens, p, <<>>), p)
         /\ NaoRecua(parseLoop(tokens, p, <<>>), p)
\* parse returned the array of two statements, the cursor on the EOF token.
C29_DuasSentencas ==
  /\ parsed # NotParsed
  /\ ~parsed.err
  /\ parsed.node.node = "Array"
  /\ Len(parsed.node.statements) = 2
  /\ parsed.pos = Len(tokens)

\* C30: CREATE TABLE of a table that the selected database holds and CREATE
\* DATABASE of a database that exists return a failure and leave the store
\* (columns, constraints and records) as it was; CREATE DATABASE leaves the
\* selected database as it was.
C30_CriarExistente ==
  [][/\ (/\ entrada' \in CreateTablePool
         /\ loadTable(arquivos, currentDatabase, entrada'.tableName) # NoNode)
          => (~resultado'.sucesso /\ arquivos' = arquivos)
     /\ (entrada' = CriarLoja /\ arquivoExiste(arquivos, "loja"))
          => (~resultado'.sucesso /\ arquivos' = arquivos)
     /\ entrada' = CriarLoja => currentDatabase' = currentDatabase]_vars
\* criar tabela usuarios was refused where usuarios holds a record, which it
\* still holds.
C30_UsuariosMantida ==
  /\ entrada = CriarUsuarios
  /\ ~resultado.sucesso
  /\ resultado.mensagem = "Tabela ja existe"
  /\ Len(registrosDa(arquivos, "usuarios")) >= 1

====
